---- MODULE Spec2Model ----
(***************************************************************************)
(* The edit-application engine of vibe_blender (agents/editor.py).         *)
(*                                                                         *)
(* A script is a sequence of one-character strings.  Offsets are 0-based   *)
(* as in Python; slice(s, i, j) is Python's s[i:j].  One behaviour is one  *)
(* call of apply_edits(current_code, edits): the initial state is the      *)
(* entry of the call, every step is one pass of its loop or one return.    *)
(* Spec and SpecLines run one call, SpecTwo interleaves two calls, and in  *)
(* SpecRefine the call is made by GeneratorAgent.refine (generator.py).    *)
(* SpecReindent calls the helper _reindent on its own, SpecCritic calls    *)
(* CriticAgent._parse_response (agents/critic.py) on its own.              *)
(* SpecPipeline is one call of Orchestrator.run (orchestrator.py) with the *)
(* ReAct loop and its Watchdog (execution/watchdog.py); the planner, the   *)
(* generator and the executor are its environment: each call returns or    *)
(* raises.  The call of the critic raises TypeError every time, as it      *)
(* passes a keyword CriticAgent.critique does not take.  The on_iteration   *)
(* callback of the caller returns or raises, in both cases with or without *)
(* having written to the record it is handed.  SpecPipelineFair adds that  *)
(* every step is taken.                                                    *)
(***************************************************************************)
EXTENDS Integers, Sequences, FiniteSets

\* ------------------------------------------------------------------------
\* Bounds of the model
\* ------------------------------------------------------------------------

MaxBuf == 3

MaxOld == 2

MaxNew == 1

MaxEdits == 2

\* the scripts of SpecLines: numbers of lines of a buffer and of an old_code
MaxBufLines == 4

MaxOldLines == 3

\* ------------------------------------------------------------------------
\* Characters and Python string primitives
\* ------------------------------------------------------------------------

NL == "\n"

SP == " "

\* the characters the inputs are drawn from
Alphabet == {"a", SP, NL}

\* what str.strip / lstrip / rstrip remove (str.isspace): space, \n, \t, \r,
\* \f, then, written as the characters themselves, \x0b, \x1c, \x1d, \x1e,
\* \x1f, \x85, \xa0 and U+1680.  Python strips U+2000-U+200A, U+2028,
\* U+2029, U+202F, U+205F and U+3000 as well, which a string of a module
\* cannot hold
Whitespace ==
    {SP, NL, "\t", "\r", "\f", "", "", "", "", "",
     "", " ", " "}

\* F applied to the value of v, which is computed once: the binding of a
\* local variable (first = ..., pos = ...)
With(v, F(_)) == CHOOSE r \in {F(w) : w \in {v}} : TRUE

Min(x, y) == IF x < y THEN x ELSE y

Max(x, y) == IF x > y THEN x ELSE y

\* Python s[i:j] for 0 <= i, 0 <= j (both clamped to len(s))
slice(s, i, j) ==
    LET hi == Min(j, Len(s))
    IN  IF i >= hi THEN << >> ELSE [k \in 1..(hi - i) |-> s[i + k]]

\* the start offsets >= from at which sub occurs in s
occurrences(s, sub, from) ==
    {p \in from..(Len(s) - Len(sub)) : slice(s, p, p + Len(sub)) = sub}

\* Python s.find(sub, from): lowest such offset, -1 when there is none
find(s, sub, from) ==
    With(occurrences(s, sub, from), LAMBDA occ :
        IF occ = {} THEN -1 ELSE CHOOSE p \in occ : \A q \in occ : p <= q)

\* Python s.split("\n"): always at least one line
RECURSIVE split(_)
split(s) ==
    With(find(s, <<NL>>, 0), LAMBDA p :
        IF p = -1 THEN <<s>>
        ELSE <<slice(s, 0, p)>> \o split(slice(s, p + 1, Len(s))))

\* Python "\n".join(lines)
RECURSIVE join(_)
join(lines) ==
    IF lines = << >> THEN << >>
    ELSE IF Len(lines) = 1 THEN lines[1]
    ELSE lines[1] \o <<NL>> \o join(Tail(lines))

RECURSIVE rstrip(_)
rstrip(line) ==
    IF line # << >> /\ line[Len(line)] \in Whitespace
    THEN rstrip(slice(line, 0, Len(line) - 1))
    ELSE line

RECURSIVE lstrip(_)
lstrip(line) ==
    IF line # << >> /\ line[1] \in Whitespace THEN lstrip(Tail(line)) ELSE line

strip(line) == lstrip(rstrip(line))

\* " " * n
spaces(n) == [k \in 1..n |-> SP]

\* [f(line) for line in lines]
rstrip_lines(lines) == [k \in 1..Len(lines) |-> rstrip(lines[k])]

\* [line for line in lines if line.strip()]
RECURSIVE non_blank(_)
non_blank(lines) ==
    IF lines = << >> THEN << >>
    ELSE IF strip(lines[1]) # << >> THEN <<lines[1]>> \o non_blank(Tail(lines))
    ELSE non_blank(Tail(lines))

\* ------------------------------------------------------------------------
\* Outcomes of a matcher: None, a span, or a raised ValueError
\* ------------------------------------------------------------------------

None == [kind |-> "none", start |-> -1, end |-> -1, msg |-> ""]

Span(s, e) == [kind |-> "span", start |-> s, end |-> e, msg |-> ""]

ValueError(m) == [kind |-> "raise", start |-> -1, end |-> -1, msg |-> m]

\* the texts of the ValueErrors (the source writes the dash as U+2014)
MsgExact == "old_code appears multiple times in script - edit is ambiguous"

MsgTrimmed == "old_code (line-trimmed) appears multiple times - edit is ambiguous"

MsgReindented == "old_code (re-indented) appears multiple times - edit is ambiguous"

MsgIndentLevels == "old_code matches at multiple indent levels - edit is ambiguous"

MsgBlank == "old_code (blank-lines-stripped) appears multiple times - edit is ambiguous"

\* ------------------------------------------------------------------------
\* Matcher 1 - ExactReplacer
\* ------------------------------------------------------------------------

\* exact_match looking for the second occurrence only after the first one
exact_match_after_first(code, old_code) ==
    With(find(code, old_code, 0), LAMBDA first :
        IF first = -1 THEN None
        ELSE IF find(code, old_code, first + Len(old_code)) # -1 THEN ValueError(MsgExact)
        ELSE Span(first, first + Len(old_code)))

\* exact_match returning the offset of the last matched character as the end
exact_match_inclusive_end(code, old_code) ==
    With(find(code, old_code, 0), LAMBDA first :
        IF first = -1 THEN None
        ELSE IF find(code, old_code, first + 1) # -1 THEN ValueError(MsgExact)
        ELSE Span(first, first + Len(old_code) - 1))

exact_match(code, old_code) ==
    With(find(code, old_code, 0), LAMBDA first :
        IF first = -1 THEN None
        ELSE IF find(code, old_code, first + 1) # -1 THEN ValueError(MsgExact)
        ELSE Span(first, first + Len(old_code)))

\* ------------------------------------------------------------------------
\* Matcher 2 - LineTrimmedReplacer
\* ------------------------------------------------------------------------

\* orig_starts that leave out the width of the line terminator
RECURSIVE line_starts_no_newline(_, _)
line_starts_no_newline(lines, offset) ==
    IF lines = << >> THEN << >>
    ELSE <<offset>> \o line_starts_no_newline(Tail(lines), offset + Len(lines[1]))

\* orig_starts of _build_trimmed_map: the offset of every line of code
RECURSIVE line_starts(_, _)
line_starts(lines, offset) ==
    IF lines = << >> THEN << >>
    ELSE <<offset>> \o line_starts(Tail(lines), offset + Len(lines[1]) + 1)

build_trimmed_map(code) ==
    With(split(code), LAMBDA lines :
        [trimmed |-> join(rstrip_lines(lines)),
         orig_starts |-> line_starts(lines, 0)])

RECURSIVE map_trimmed_walk(_, _, _, _, _, _)
map_trimmed_walk(orig_code, trimmed_lines, orig_line_starts, trimmed_pos, line_idx, offset) ==
    IF line_idx > Len(trimmed_lines) THEN Len(orig_code)
    ELSE LET line_end == offset + Len(trimmed_lines[line_idx])
         IN  IF trimmed_pos <= line_end
             THEN orig_line_starts[line_idx] + (trimmed_pos - offset)
             ELSE map_trimmed_walk(orig_code, trimmed_lines, orig_line_starts,
                                   trimmed_pos, line_idx + 1, line_end + 1)

map_trimmed_pos_to_orig(orig_code, trimmed_code, orig_line_starts, trimmed_pos) ==
    map_trimmed_walk(orig_code, split(trimmed_code), orig_line_starts, trimmed_pos, 1, 0)

\* line_trimmed_match trimming old_code only and searching the buffer as it is
line_trimmed_match_untrimmed_buffer(code, old_code) ==
    With(build_trimmed_map(code), LAMBDA m :
    With(join(rstrip_lines(split(old_code))), LAMBDA trimmed_old :
    With(find(code, trimmed_old, 0), LAMBDA pos :
        IF pos = -1 THEN None
        ELSE IF find(code, trimmed_old, pos + 1) # -1 THEN ValueError(MsgTrimmed)
        ELSE Span(pos, pos + Len(trimmed_old)))))

line_trimmed_match(code, old_code) ==
    With(build_trimmed_map(code), LAMBDA m :
    With(join(rstrip_lines(split(old_code))), LAMBDA trimmed_old :
    With(find(m.trimmed, trimmed_old, 0), LAMBDA pos :
        IF pos = -1 THEN None
        ELSE IF find(m.trimmed, trimmed_old, pos + 1) # -1 THEN ValueError(MsgTrimmed)
        ELSE Span(map_trimmed_pos_to_orig(code, m.trimmed, m.orig_starts, pos),
                  map_trimmed_pos_to_orig(code, m.trimmed, m.orig_starts,
                                          pos + Len(trimmed_old))))))

\* ------------------------------------------------------------------------
\* Matcher 3 - IndentationFlexibleReplacer
\* ------------------------------------------------------------------------

\* the value standing for _detect_indent's None
NoIndent == -1

indent_of(line) == Len(line) - Len(lstrip(line))

RECURSIVE detect_indent_lines(_)
detect_indent_lines(lines) ==
    IF lines = << >> THEN NoIndent
    ELSE IF lstrip(lines[1]) # << >> THEN indent_of(lines[1])
    ELSE detect_indent_lines(Tail(lines))

detect_indent(text) == detect_indent_lines(split(text))

\* _reindent shifting the whitespace-only lines like the others
reindent_line_shifts_blank(line, delta) ==
    spaces(Max(0, indent_of(line) + delta)) \o lstrip(line)

reindent_line(line, delta) ==
    IF strip(line) = << >> THEN << >>
    ELSE spaces(Max(0, indent_of(line) + delta)) \o lstrip(line)

reindent(text, from_indent, to_indent) ==
    With(split(text), LAMBDA lines :
        join([k \in 1..Len(lines) |-> reindent_line(lines[k], to_indent - from_indent)]))

\* the indent levels of the non-blank lines of code
code_indents(code) ==
    With(split(code), LAMBDA lines :
        {indent_of(lines[k]) : k \in {j \in 1..Len(lines) : lstrip(lines[j]) # << >>}})

\* the targets of the loop whose re-indented old_code occurs in code, each
\* with the offset of the first occurrence and the re-indented text
indent_hits(code, old_code, old_indent) ==
    {h \in {With(reindent(old_code, old_indent, t), LAMBDA reindented :
                [target |-> t, reindented |-> reindented, pos |-> find(code, reindented, 0)])
            : t \in code_indents(code) \ {old_indent}}
       : h.pos # -1}

\* indentation_flexible_match measuring the span with old_code as given
indentation_flexible_match_len_of_old(code, old_code) ==
    With(detect_indent(old_code), LAMBDA old_indent :
        IF old_indent = NoIndent THEN None
        ELSE With(indent_hits(code, old_code, old_indent), LAMBDA matches :
            IF \E h \in matches : find(code, h.reindented, h.pos + 1) # -1
            THEN ValueError(MsgReindented)
            ELSE IF Cardinality(matches) = 1
            THEN With(CHOOSE h \in matches : TRUE, LAMBDA h :
                     Span(h.pos, h.pos + Len(old_code)))
            ELSE IF Cardinality(matches) > 1 THEN ValueError(MsgIndentLevels)
            ELSE None))

\* indentation_flexible_match settling for the shallowest depth that matches
indentation_flexible_match_shallowest(code, old_code) ==
    With(detect_indent(old_code), LAMBDA old_indent :
        IF old_indent = NoIndent THEN None
        ELSE With(indent_hits(code, old_code, old_indent), LAMBDA matches :
            IF \E h \in matches : find(code, h.reindented, h.pos + 1) # -1
            THEN ValueError(MsgReindented)
            ELSE IF Cardinality(matches) >= 1
            THEN With(CHOOSE h \in matches : \A g \in matches : h.target <= g.target,
                      LAMBDA h : Span(h.pos, h.pos + Len(h.reindented)))
            ELSE None))

indentation_flexible_match(code, old_code) ==
    With(detect_indent(old_code), LAMBDA old_indent :
        IF old_indent = NoIndent THEN None
        ELSE With(indent_hits(code, old_code, old_indent), LAMBDA matches :
            IF \E h \in matches : find(code, h.reindented, h.pos + 1) # -1
            THEN ValueError(MsgReindented)
            ELSE IF Cardinality(matches) = 1
            THEN With(CHOOSE h \in matches : TRUE, LAMBDA h :
                     Span(h.pos, h.pos + Len(h.reindented)))
            ELSE IF Cardinality(matches) > 1 THEN ValueError(MsgIndentLevels)
            ELSE None))

\* ------------------------------------------------------------------------
\* Matcher 4 - BlankLineFlexibleReplacer
\* ------------------------------------------------------------------------

strip_blank_lines(text) == join(non_blank(split(text)))

\* kept_line_info: <<orig_char_start, line_length>> of every non-blank line
RECURSIVE kept_line_info(_, _)
kept_line_info(lines, orig_offset) ==
    IF lines = << >> THEN << >>
    ELSE (IF strip(lines[1]) # << >> THEN << <<orig_offset, Len(lines[1])>> >> ELSE << >>)
         \o kept_line_info(Tail(lines), orig_offset + Len(lines[1]) + 1)

\* the per-character span map of the kept lines from line_idx on
RECURSIVE char_spans(_, _)
char_spans(info, line_idx) ==
    IF line_idx > Len(info) THEN << >>
    ELSE LET orig_start == info[line_idx][1]
             orig_len == info[line_idx][2]
         IN  [col \in 1..orig_len |-> <<orig_start + col - 1, orig_start + col>>]
             \o (IF line_idx < Len(info)
                 THEN << <<orig_start + orig_len, orig_start + orig_len + 1>> >>
                 ELSE << >>)
             \o char_spans(info, line_idx + 1)

strip_blank_lines_with_spans(text) ==
    With(kept_line_info(split(text), 0), LAMBDA info :
        [stripped_text |->
             join([k \in 1..Len(info) |-> slice(text, info[k][1], info[k][1] + info[k][2])]),
         spans |-> char_spans(info, 1)])

\* _collapsed_pos_to_orig returning one more than the last span's end
collapsed_pos_to_orig_past_the_end(spans, pos) ==
    IF pos <= 0 THEN 0
    ELSE IF pos >= Len(spans)
    THEN (IF spans # << >> THEN spans[Len(spans)][2] + 1 ELSE 0)
    ELSE spans[pos + 1][1]

collapsed_pos_to_orig(spans, pos) ==
    IF pos <= 0 THEN 0
    ELSE IF pos >= Len(spans)
    THEN (IF spans # << >> THEN spans[Len(spans)][2] ELSE 0)
    ELSE spans[pos + 1][1]

\* blank_line_flexible_match removing the blank lines of old_code only
blank_line_flexible_match_keeps_buffer_blanks(code, old_code) ==
    With(strip_blank_lines(old_code), LAMBDA stripped_old :
    With(find(code, stripped_old, 0), LAMBDA pos :
        IF pos = -1 THEN None
        ELSE IF find(code, stripped_old, pos + 1) # -1 THEN ValueError(MsgBlank)
        ELSE Span(pos, pos + Len(stripped_old))))

blank_line_flexible_match(code, old_code) ==
    With(strip_blank_lines_with_spans(code), LAMBDA s :
    With(strip_blank_lines(old_code), LAMBDA stripped_old :
    With(find(s.stripped_text, stripped_old, 0), LAMBDA pos :
        IF pos = -1 THEN None
        ELSE IF find(s.stripped_text, stripped_old, pos + 1) # -1 THEN ValueError(MsgBlank)
        ELSE Span(collapsed_pos_to_orig(s.spans, pos),
                  collapsed_pos_to_orig(s.spans, pos + Len(stripped_old))))))

\* ------------------------------------------------------------------------
\* locate_edit: the cascade
\* ------------------------------------------------------------------------

NumMatchers == 4

\* matchers[j](code, old_code)
matcher(j, code, old_code) ==
    CASE j = 1 -> exact_match(code, old_code)
      [] j = 2 -> line_trimmed_match(code, old_code)
      [] j = 3 -> indentation_flexible_match(code, old_code)
      [] j = 4 -> blank_line_flexible_match(code, old_code)

\* locate_edit going on to the next matcher after a ValueError
RECURSIVE cascade_skips_raise(_, _, _)
cascade_skips_raise(code, old_code, j) ==
    IF j > NumMatchers THEN << >>
    ELSE With(matcher(j, code, old_code), LAMBDA result :
             IF result.kind = "span" \/ j = NumMatchers THEN <<result>>
             ELSE <<result>> \o cascade_skips_raise(code, old_code, j + 1))

\* locate_edit raising when no matcher finds old_code
RECURSIVE cascade_raises_when_exhausted(_, _, _)
cascade_raises_when_exhausted(code, old_code, j) ==
    IF j > NumMatchers THEN <<ValueError("old_code not found")>>
    ELSE With(matcher(j, code, old_code), LAMBDA result :
             IF result # None THEN <<result>>
             ELSE <<result>> \o cascade_raises_when_exhausted(code, old_code, j + 1))

\* locate_edit trying the exact matcher only
cascade_exact_only(code, old_code, j) == <<matcher(1, code, old_code)>>

\* the results of the matchers the loop of locate_edit calls, in call order,
\* starting with matcher j
RECURSIVE cascade(_, _, _)
cascade(code, old_code, j) ==
    IF j > NumMatchers THEN << >>
    ELSE With(matcher(j, code, old_code), LAMBDA result :
             IF result # None THEN <<result>>
             ELSE <<result>> \o cascade(code, old_code, j + 1))

\* what locate_edit returns (None, a span) or raises
locate_edit(code, old_code) ==
    With(cascade(code, old_code, 1), LAMBDA calls : calls[Len(calls)])

\* ------------------------------------------------------------------------
\* apply_edits as a state machine
\* ------------------------------------------------------------------------

\* str values of length <= n
Strings(n) == UNION {[1..k -> Alphabet] : k \in 0..n}

\* the edit dicts a caller passes: both keys, or one of them absent
EditDicts ==
    [old_code : Strings(MaxOld), new_code : Strings(MaxNew)]
    \cup {[new_code |-> n] : n \in Strings(MaxNew)}
    \cup {[old_code |-> o] : o \in Strings(MaxOld)}

Batches == UNION {[1..k -> EditDicts] : k \in 0..MaxEdits}

\* edit.get(key, "")
get(edit, key) == IF key \in DOMAIN edit THEN edit[key] ELSE << >>

\* the value of error when there is none
NoError == << >>

EditResult(success, code, applied_count, error) ==
    [success |-> success, code |-> code, applied_count |-> applied_count, error |-> error]

\* the value of result while the call has not returned
NoResult == EditResult(FALSE, << >>, -1, NoError)

\* the message with the 0-based index
ErrEmpty_zero_based(i) == <<"Edit ", i, ": old_code is empty">>

\* f"Edit {i + 1}: old_code is empty"
ErrEmpty(i) == <<"Edit ", i + 1, ": old_code is empty">>

\* f"Edit {i + 1}: old_code not found in script"
ErrNotFound(i) == <<"Edit ", i + 1, ": old_code not found in script">>

\* a splice that keeps the replaced text
splice_keeps_old(working_buf, start, end, new_code) ==
    slice(working_buf, 0, start) \o new_code \o slice(working_buf, start, Len(working_buf))

\* working[:start] + new_code + working[end:]
splice(working_buf, start, end, new_code) ==
    slice(working_buf, 0, start) \o new_code \o slice(working_buf, end, Len(working_buf))

\* what a call ends with: the EditResult returned, or the ValueError raised
Returns(r) == [pc |-> "returned", result |-> r, exception |-> ""]

Raises(m) == [pc |-> "raised", result |-> EditResult(FALSE, << >>, -1, NoError), exception |-> m]

\* lines 43-69: the loop from edit k + 1 on, and the final return
RECURSIVE apply_loop(_, _, _, _)
apply_loop(current_code, edits, working_buf, k) ==
    IF k = Len(edits) THEN Returns(EditResult(TRUE, working_buf, Len(edits), NoError))
    ELSE IF get(edits[k + 1], "old_code") = << >>
    THEN Returns(EditResult(FALSE, current_code, 0, ErrEmpty(k)))
    ELSE With(locate_edit(working_buf, get(edits[k + 1], "old_code")), LAMBDA match :
        IF match.kind = "raise" THEN Raises(match.msg)
        ELSE IF match = None
        THEN Returns(EditResult(FALSE, current_code, 0, ErrNotFound(k)))
        ELSE apply_loop(current_code, edits,
                        splice(working_buf, match.start, match.end,
                               get(edits[k + 1], "new_code")),
                        k + 1))

\* apply_edits as a function of its arguments: one call run from entry to end
apply_edits(current_code, edits) ==
    IF edits = << >> THEN Returns(EditResult(TRUE, current_code, 0, NoError))
    ELSE apply_loop(current_code, edits, current_code, 0)

VARIABLES
    current_code,   \* argument: the original script
    edits,          \* argument: the list of edit dicts
    working,        \* local: the working buffer
    i,              \* local: 0-based index of the next edit of the loop
    pc,             \* "running", "returned" or "raised"
    result,         \* the EditResult returned
    exception,      \* the text of the ValueError that left the call
    trace,          \* the locate_edit calls made so far: arguments and matcher results
    active,         \* which of two concurrent calls the variables above belong to
    peer,           \* the frame of the other, suspended call (NoPeer: there is none)
    refine,         \* the GeneratorAgent.refine call that calls apply_edits (NoRefine: none)
    helper,         \* a call of a helper function on its own (NoHelper: none)
    pipeline        \* a run of the Orchestrator (NoPipeline: none)

vars == <<current_code, edits, working, i, pc, result, exception, trace, active, peer,
          refine, helper, pipeline>>

\* the value of peer when one call runs alone
NoPeer == [pc |-> "absent"]

\* the value of refine when apply_edits is called directly
NoRefine == [pc |-> "absent"]

\* the value of helper when no helper function is called on its own
NoHelper == [pc |-> "absent"]

\* the value of pipeline when no Orchestrator runs
NoPipeline == [pc |-> "absent"]

\* one call runs alone, called directly
Alone ==
    /\ active = 1
    /\ peer = NoPeer
    /\ refine = NoRefine
    /\ helper = NoHelper
    /\ pipeline = NoPipeline

Init ==
    /\ current_code \in Strings(MaxBuf)
    /\ edits \in Batches
    /\ working = current_code
    /\ i = 0
    /\ pc = "running"
    /\ result = NoResult
    /\ exception = ""
    /\ trace = << >>
    /\ Alone

\* the record of one locate_edit(code, old_code) call: its arguments, the
\* results of the matchers it consulted, and what it returned or raised
LocateCall(code, old_code) ==
    With(cascade(code, old_code, 1), LAMBDA calls :
        [code |-> code, old_code |-> old_code, calls |-> calls,
         match |-> calls[Len(calls)]])

\* locate_edit called on something else than the working buffer
Locate_in_original == LocateCall(current_code, get(edits[i + 1], "old_code"))

\* line 55: match = locate_edit(working, old_code)
Locate == LocateCall(working, get(edits[i + 1], "old_code"))

Return(r) ==
    /\ pc' = "returned"
    /\ result' = r
    /\ UNCHANGED <<current_code, edits, working, i, exception, active, peer, refine, helper, pipeline>>

\* an empty batch reported as a failure
ReturnNoEdits_as_failure ==
    /\ pc = "running"
    /\ edits = << >>
    /\ Return(EditResult(FALSE, current_code, 0, NoError))
    /\ UNCHANGED trace

\* lines 39-40: if not edits
ReturnNoEdits ==
    /\ pc = "running"
    /\ edits = << >>
    /\ Return(EditResult(TRUE, current_code, 0, NoError))
    /\ UNCHANGED trace

\* lines 43-53: the next edit has no old_code
EditEmptyOld ==
    /\ pc = "running"
    /\ i < Len(edits)
    /\ get(edits[i + 1], "old_code") = << >>
    /\ Return(EditResult(FALSE, current_code, 0, ErrEmpty(i)))
    /\ UNCHANGED trace

\* line 55: locate_edit raises; nothing in apply_edits catches it
EditRaises ==
    /\ pc = "running"
    /\ i < Len(edits)
    /\ get(edits[i + 1], "old_code") # << >>
    /\ \E call \in {Locate} :
           /\ call.match.kind = "raise"
           /\ pc' = "raised"
           /\ exception' = call.match.msg
           /\ trace' = Append(trace, call)
    /\ UNCHANGED <<current_code, edits, working, i, result, active, peer, refine, helper, pipeline>>

\* EditNotFound returning the working buffer
EditNotFound_returns_working ==
    /\ pc = "running"
    /\ i < Len(edits)
    /\ get(edits[i + 1], "old_code") # << >>
    /\ \E call \in {Locate} :
           /\ call.match = None
           /\ trace' = Append(trace, call)
    /\ Return(EditResult(FALSE, working, 0, ErrNotFound(i)))

\* lines 55-63: locate_edit returns None
EditNotFound ==
    /\ pc = "running"
    /\ i < Len(edits)
    /\ get(edits[i + 1], "old_code") # << >>
    /\ \E call \in {Locate} :
           /\ call.match = None
           /\ trace' = Append(trace, call)
    /\ Return(EditResult(FALSE, current_code, 0, ErrNotFound(i)))

\* EditApplied splicing into the line-trimmed view of the working buffer
EditApplied_in_trimmed_view ==
    /\ pc = "running"
    /\ i < Len(edits)
    /\ get(edits[i + 1], "old_code") # << >>
    /\ \E call \in {Locate} :
           /\ call.match.kind = "span"
           /\ working' = splice(join(rstrip_lines(split(working))),
                                call.match.start, call.match.end,
                                get(edits[i + 1], "new_code"))
           /\ trace' = Append(trace, call)
    /\ i' = i + 1
    /\ UNCHANGED <<current_code, edits, pc, result, exception, active, peer, refine, helper, pipeline>>

\* lines 55-67: locate_edit returns a span, which is spliced
EditApplied ==
    /\ pc = "running"
    /\ i < Len(edits)
    /\ get(edits[i + 1], "old_code") # << >>
    /\ \E call \in {Locate} :
           /\ call.match.kind = "span"
           /\ working' = splice(working, call.match.start, call.match.end,
                                get(edits[i + 1], "new_code"))
           /\ trace' = Append(trace, call)
    /\ i' = i + 1
    /\ UNCHANGED <<current_code, edits, pc, result, exception, active, peer, refine, helper, pipeline>>

\* line 69: the loop is over
ReturnAllApplied ==
    /\ pc = "running"
    /\ edits # << >>
    /\ i = Len(edits)
    /\ Return(EditResult(TRUE, working, Len(edits), NoError))
    /\ UNCHANGED trace

Next ==
    \/ ReturnNoEdits
    \/ EditEmptyOld
    \/ EditRaises
    \/ EditNotFound
    \/ EditApplied
    \/ ReturnAllApplied

Spec == Init /\ [][Next]_vars

\* ------------------------------------------------------------------------
\* apply_edits on scripts made of whole lines: one edit at most, longer texts
\* ------------------------------------------------------------------------

\* the lines the scripts are made of: blank, or "a" at depth 0, 1 or 2
LineSet == {<< >>, <<"a">>, <<SP, "a">>, <<SP, SP, "a">>}

\* the texts of 1..n such lines
Texts(n) == {join(lines) : lines \in UNION {[1..k -> LineSet] : k \in 1..n}}

InitLines ==
    /\ current_code \in Texts(MaxBufLines)
    /\ edits \in {<< >>} \cup
                 {<<[old_code |-> o, new_code |-> n]>> :
                     o \in Texts(MaxOldLines), n \in {<< >>, <<"a">>}}
    /\ working = current_code
    /\ i = 0
    /\ pc = "running"
    /\ result = NoResult
    /\ exception = ""
    /\ trace = << >>
    /\ Alone

SpecLines == InitLines /\ [][Next]_vars

\* ------------------------------------------------------------------------
\* Two concurrent apply_edits calls, interleaved between the steps of a call
\* ------------------------------------------------------------------------

\* the arguments and locals of the call that is running
Frame ==
    [current_code |-> current_code, edits |-> edits, working |-> working, i |-> i,
     pc |-> pc, result |-> result, exception |-> exception, trace |-> trace]

\* the frame of a call at its entry (line 42: working = current_code)
Entry(code, batch) ==
    [current_code |-> code, edits |-> batch, working |-> code, i |-> 0,
     pc |-> "running", result |-> NoResult, exception |-> "", trace |-> << >>]

\* the arguments of the two calls
PairStrings == {<< >>, <<"a">>, <<SP>>}

PairBatches ==
    UNION {[1..k -> [old_code : PairStrings, new_code : {<< >>, <<"a">>}]]
           : k \in 0..MaxEdits}

InitTwo ==
    /\ current_code \in PairStrings
    /\ edits \in PairBatches
    /\ working = current_code
    /\ i = 0
    /\ pc = "running"
    /\ result = NoResult
    /\ exception = ""
    /\ trace = << >>
    /\ active = 1
    /\ peer \in {Entry(code, batch) : code \in PairStrings, batch \in PairBatches}
    /\ refine = NoRefine
    /\ helper = NoHelper
    /\ pipeline = NoPipeline

\* a switch that leaves the working buffer in place: one buffer for both calls
Switch_shared_working ==
    /\ peer.pc = "running"
    /\ peer' = Frame
    /\ current_code' = peer.current_code
    /\ edits' = peer.edits
    /\ i' = peer.i
    /\ pc' = peer.pc
    /\ result' = peer.result
    /\ exception' = peer.exception
    /\ trace' = peer.trace
    /\ active' = 3 - active
    /\ UNCHANGED <<working, refine, helper, pipeline>>

\* the running call is suspended between two steps and the other call goes
\* on with its own arguments and locals
Switch ==
    /\ peer.pc = "running"
    /\ peer' = Frame
    /\ current_code' = peer.current_code
    /\ edits' = peer.edits
    /\ working' = peer.working
    /\ i' = peer.i
    /\ pc' = peer.pc
    /\ result' = peer.result
    /\ exception' = peer.exception
    /\ trace' = peer.trace
    /\ active' = 3 - active
    /\ UNCHANGED <<refine, helper, pipeline>>

NextTwo ==
    \/ ReturnNoEdits
    \/ EditEmptyOld
    \/ EditRaises
    \/ EditNotFound
    \/ EditApplied
    \/ ReturnAllApplied
    \/ Switch

SpecTwo == InitTwo /\ [][NextTwo]_vars

\* ------------------------------------------------------------------------
\* GeneratorAgent.refine: edit-based refinement with fallback to regeneration
\* ------------------------------------------------------------------------

\* JSON values of a decoded response: a str, a number, or no value (the key
\* is not in the dict)
JsonStr(s) == [type |-> "str", str |-> s]

JsonNumber == [type |-> "number", str |-> << >>]

JsonAbsent == [type |-> "absent", str |-> << >>]

\* the items of a decoded list: dicts with or without the two keys, and an
\* item that is not a dict
JsonItems ==
    [type : {"dict"},
     old_code : {JsonAbsent, JsonNumber} \cup {JsonStr(s) : s \in PairStrings},
     new_code : {JsonAbsent, JsonNumber, JsonStr(<< >>), JsonStr(<<"a">>)}]
    \cup {[type |-> "number", old_code |-> JsonAbsent, new_code |-> JsonAbsent]}

\* what the fence search and json.loads make of a response: nothing (no
\* array found, or a decode error), a value that is not a list, or a list
Responses ==
    {[kind |-> "undecodable", items |-> << >>], [kind |-> "object", items |-> << >>]}
    \cup {[kind |-> "list", items |-> items] :
             items \in UNION {[1..k -> JsonItems] : k \in 0..MaxEdits}}

\* the None of _parse_edits
NotParsed == [ok |-> FALSE, edits |-> << >>]

\* lines 188-200: the checks on one item of the list
valid_edit(item) ==
    /\ item.type = "dict"
    /\ item.old_code.type = "str"
    /\ item.old_code.str # << >>
    /\ item.new_code.type = "str"

\* _parse_edits from the decoded value on (lines 183-202)
parse_edits(data) ==
    IF data.kind # "list" THEN NotParsed
    ELSE IF \E k \in 1..Len(data.items) : ~valid_edit(data.items[k]) THEN NotParsed
    ELSE [ok |-> TRUE,
          edits |-> [k \in 1..Len(data.items) |->
                        [old_code |-> data.items[k].old_code.str,
                         new_code |-> data.items[k].new_code.str]]]

\* the value standing for edits_applied = None
NoEditsApplied == -1

GeneratedScript(code, edit_based, edits_applied) ==
    [code |-> code, edit_based |-> edit_based, edits_applied |-> edits_applied]

\* the value of script while refine has not returned
NoScript == GeneratedScript(<< >>, FALSE, NoEditsApplied)

\* self.refine_prompt_template: None, or the text of the file
RefineTemplates ==
    {[loaded |-> FALSE, text |-> << >>], [loaded |-> TRUE, text |-> << >>],
     [loaded |-> TRUE, text |-> <<"t">>]}

\* if self.refine_prompt_template
truthy(template) == template.loaded /\ template.text # << >>

\* the backtick, which a string of a module cannot hold: one element of a
\* text, like a character
BT == "BT"

\* "```"
Fence == <<BT, BT, BT>>

\* the answers of the LLM to the prompt of generate(): without a fenced
\* block, with a python block, with a plain block inside other text, and with
\* a block that is not closed; "g" is a character no original script and no
\* new_code has
GenerateResponses ==
    {<<"g">>, <<"g", NL>>, <<SP, "g">>, <<NL>>, << >>,
     Fence \o <<"p", "y", "t", "h", "o", "n", NL, "g", NL>> \o Fence,
     <<"t", NL>> \o Fence \o <<NL, SP, "g", SP, NL>> \o Fence \o <<NL, "m">>,
     Fence \o <<NL, "g">>}

\* re.search(opening + "(.*?)```", response, re.DOTALL): the text between
\* the first opening and the first fence after it
NoMatch == [found |-> FALSE, group |-> << >>]

fenced(response, opening) ==
    With(find(response, opening, 0), LAMBDA p :
        IF p = -1 THEN NoMatch
        ELSE With(find(response, Fence, p + Len(opening)), LAMBDA q :
                 IF q = -1 THEN NoMatch
                 ELSE [found |-> TRUE,
                       group |-> slice(response, p + Len(opening), q)]))

\* _extract_code: the first python block, else the first plain block, else
\* the whole response, stripped in each case
extract_code(response) ==
    IF fenced(response, Fence \o <<"p", "y", "t", "h", "o", "n", NL>>).found
    THEN strip(fenced(response, Fence \o <<"p", "y", "t", "h", "o", "n", NL>>).group)
    ELSE IF fenced(response, Fence \o <<NL>>).found
    THEN strip(fenced(response, Fence \o <<NL>>).group)
    ELSE strip(response)

\* the codes generate() stores in its GeneratedScript
GeneratedCodes == {extract_code(response) : response \in GenerateResponses}

InitRefine ==
    /\ refine \in [pc : {"entry"}, refine_prompt_template : RefineTemplates,
                    original_script : Strings(MaxBuf), edits : {NotParsed},
                    e : {<< >>}, script : {NoScript}]
    /\ current_code = << >>
    /\ edits = << >>
    /\ working = << >>
    /\ i = 0
    /\ pc = "idle"
    /\ result = NoResult
    /\ exception = ""
    /\ trace = << >>
    /\ active = 1
    /\ peer = NoPeer
    /\ helper = NoHelper
    /\ pipeline = NoPipeline

\* the variables of the apply_edits call and of what runs beside it
call_vars ==
    <<current_code, edits, working, i, pc, result, exception, trace, active, peer, helper, pipeline>>

\* except Exception as e (lines 289-292): on to the fallback
Fallback(e) ==
    /\ refine' = [refine EXCEPT !.pc = "fallback", !.e = e]
    /\ UNCHANGED call_vars

\* line 262: no template, or an empty one
RefineNoTemplate ==
    /\ refine.pc = "entry"
    /\ ~truthy(refine.refine_prompt_template)
    /\ refine' = [refine EXCEPT !.pc = "fallback"]
    /\ UNCHANGED call_vars

\* lines 264-268: formatting the prompt or calling the LLM raises
RefineCallFails ==
    /\ refine.pc = "entry"
    /\ truthy(refine.refine_prompt_template)
    /\ Fallback(<<"LLM call failed">>)

\* lines 270-272: the response does not parse to a list of valid edits
RefineParseFails ==
    /\ refine.pc = "entry"
    /\ truthy(refine.refine_prompt_template)
    /\ \E data \in Responses : parse_edits(data) = NotParsed
    /\ Fallback(<<"Failed to parse edits from LLM response">>)

\* lines 270-274: the response parses, apply_edits is called
RefineCallApplyEdits ==
    /\ refine.pc = "entry"
    /\ truthy(refine.refine_prompt_template)
    /\ \E data \in Responses :
           /\ parse_edits(data) # NotParsed
           /\ refine' = [refine EXCEPT !.pc = "applying", !.edits = parse_edits(data)]
           /\ edits' = parse_edits(data).edits
    /\ current_code' = refine.original_script
    /\ working' = refine.original_script
    /\ i' = 0
    /\ pc' = "running"
    /\ UNCHANGED <<result, exception, trace, active, peer, helper, pipeline>>

\* the failed result returned as an edit-based script
RefineEditsFailed_returns_result ==
    /\ refine.pc = "applying"
    /\ pc = "returned"
    /\ ~result.success
    /\ refine' = [refine EXCEPT !.pc = "returned",
                                !.script = GeneratedScript(result.code, TRUE,
                                                           result.applied_count)]
    /\ UNCHANGED call_vars

\* lines 275-276: apply_edits returned success = False
RefineEditsFailed ==
    /\ refine.pc = "applying"
    /\ pc = "returned"
    /\ ~result.success
    /\ Fallback(result.error)

\* lines 274, 289: apply_edits raised
RefineEditsRaised ==
    /\ refine.pc = "applying"
    /\ pc = "raised"
    /\ Fallback(<<exception>>)

\* lines 278-287: the edit-based script is returned
RefineReturnEdited ==
    /\ refine.pc = "applying"
    /\ pc = "returned"
    /\ result.success
    /\ refine' = [refine EXCEPT !.pc = "returned",
                                !.script = GeneratedScript(result.code, TRUE,
                                                           result.applied_count)]
    /\ UNCHANGED call_vars

\* lines 293-310 and generate (lines 84-116): the regenerated script
RefineRegenerate ==
    /\ refine.pc = "fallback"
    /\ \E response \in GenerateResponses :
           refine' = [refine EXCEPT !.pc = "returned",
                                   !.script = GeneratedScript(extract_code(response),
                                                              FALSE, NoEditsApplied)]
    /\ UNCHANGED call_vars

\* line 305: the LLM call of generate raises, and so does refine
RefineGenerateRaises ==
    /\ refine.pc = "fallback"
    /\ refine' = [refine EXCEPT !.pc = "raised"]
    /\ UNCHANGED call_vars

NextRefine ==
    \/ RefineNoTemplate
    \/ RefineCallFails
    \/ RefineParseFails
    \/ RefineCallApplyEdits
    \/ ReturnNoEdits
    \/ EditRaises
    \/ EditNotFound
    \/ EditApplied
    \/ ReturnAllApplied
    \/ RefineEditsFailed
    \/ RefineEditsRaised
    \/ RefineReturnEdited
    \/ RefineRegenerate
    \/ RefineGenerateRaises

SpecRefine == InitRefine /\ [][NextRefine]_vars

\* ------------------------------------------------------------------------
\* _reindent called on its own
\* ------------------------------------------------------------------------

\* numbers of lines of a text and indent levels passed to _reindent
MaxReindentLines == 3

MaxIndent == 3

\* no apply_edits call is made
NoApplyEdits ==
    /\ current_code = << >>
    /\ edits = << >>
    /\ working = << >>
    /\ i = 0
    /\ pc = "idle"
    /\ result = NoResult
    /\ exception = ""
    /\ trace = << >>
    /\ active = 1
    /\ peer = NoPeer

\* the lines of the texts: empty, whitespace only, "a" at depth 0, 1 or 2,
\* indented by a tab, and with trailing whitespace
ReindentLines ==
    {<< >>, <<SP>>, <<"a">>, <<SP, "a">>, <<SP, SP, "a">>, <<"\t", "a">>, <<"a", SP>>}

ReindentTexts == {join(ls) : ls \in UNION {[1..n -> ReindentLines] : n \in 1..MaxReindentLines}}

InitReindent ==
    /\ helper \in [pc : {"called"}, fn : {"_reindent"}, text : ReindentTexts,
                    from_indent : 0..MaxIndent, to_indent : 0..MaxIndent,
                    value : {<< >>}]
    /\ NoApplyEdits
    /\ refine = NoRefine
    /\ pipeline = NoPipeline

\* _reindent(text, from_indent, to_indent) returns
ReindentReturns ==
    /\ helper.pc = "called"
    /\ helper.fn = "_reindent"
    /\ helper' = [helper EXCEPT !.pc = "returned",
                     !.value = reindent(helper.text, helper.from_indent, helper.to_indent)]
    /\ UNCHANGED <<current_code, edits, working, i, pc, result, exception, trace, active,
                   peer, refine, pipeline>>

NextReindent == ReindentReturns

SpecReindent == InitReindent /\ [][NextReindent]_vars

\* ------------------------------------------------------------------------
\* Orchestrator.run and the ReAct loop (orchestrator.py, watchdog.py)
\* ------------------------------------------------------------------------

\* the largest config.pipeline.max_retries of the runs
MaxRetries == 4

\* Python None, in a field that holds a record otherwise
NoValue == [none |-> TRUE]

\* str(e) of the exceptions the planner, the generator, the executor and
\* the callback raise; str(e) is "" for an exception without arguments
ErrorTexts == {"", "boom"}

\* str(e) of the AttributeError of original_script.iteration on None
MsgNoneScript == "'NoneType' object has no attribute 'iteration'"

\* str(e) of the UnboundLocalError of reading state before its assignment
MsgUnboundState ==
    "cannot access local variable 'state' where it is not associated with a value"

\* str(e) of the TypeError of the call of lines 264-270: CriticAgent.critique
\* (critic.py:59-65) has no parameter reference_images
MsgCritiqueKeyword ==
    "CriticAgent.critique() got an unexpected keyword argument 'reference_images'"

\* str(e) of the OSError of output_dir.mkdir (line 117), here for an
\* output_dir below a regular file
MsgMkdir == "[Errno 20] Not a directory: 'f/out'"

\* CriticAgent's default pass_threshold
pass_threshold == 7

\* the verdict, score (in tenths), issues and suggestions of a CritiqueResult
CritiqueResult(verdict, score, issues, suggestions) ==
    [verdict |-> verdict, score |-> score, issues |-> issues, suggestions |-> suggestions]

\* IterationRecord(iteration=iteration, script=None)
IterationRecord(iteration) ==
    [iteration |-> iteration, script |-> NoValue, render_output |-> NoValue,
     critique |-> NoValue, error |-> NoValue]

\* PipelineState(user_prompt=..., max_retries=..., output_dir=...)
PipelineState(max_retries) ==
    [current_iteration |-> 0, max_retries |-> max_retries, status |-> "running",
     iterations |-> << >>, final_output |-> NoValue]

\* PipelineState.add_iteration
add_iteration(state, record) ==
    [state EXCEPT !.iterations = Append(state.iterations, record),
                  !.current_iteration = record.iteration]

\* can_continue that allows one iteration more
can_continue_one_more(state, max_retries) ==
    state.status = "running" /\ ~(state.current_iteration > max_retries)

\* Watchdog.can_continue, max_retries being self.max_retries
can_continue(state, max_retries) ==
    state.status = "running" /\ ~(state.current_iteration >= max_retries)

\* check_completion that asks for a record but not for its critique
check_completion_any_record(state) ==
    /\ state.iterations # << >>

\* Watchdog.check_completion
check_completion(state) ==
    /\ state.iterations # << >>
    /\ state.iterations[Len(state.iterations)].critique # NoValue
    /\ state.iterations[Len(state.iterations)].critique.verdict = "pass"

\* state.iterations[-3:]
last_three(iterations) ==
    SubSeq(iterations, Max(1, Len(iterations) - 2), Len(iterations))

\* if r.error
has_error(r) == r.error # NoValue /\ r.error.text # ""

\* Watchdog.should_stop_early (the flag of the returned pair); a score is
\* held in tenths, so the 3 of line 131 is 30
should_stop_early(state) ==
    /\ ~(Len(state.iterations) < 3)
    /\ With(last_three(state.iterations), LAMBDA recent :
          \/ /\ \A k \in 1..3 : has_error(recent[k])
             /\ \A k \in 1..3 : recent[k].error.text = recent[1].error.text
          \/ /\ \A k \in 1..3 : recent[k].critique # NoValue
             /\ recent[3].critique.score < recent[2].critique.score
             /\ recent[2].critique.score < recent[1].critique.score
             /\ recent[3].critique.score < 30)

\* the records with a critique whose score is above every earlier one's
better_records(iterations) ==
    {k \in 1..Len(iterations) :
        /\ iterations[k].critique # NoValue
        /\ iterations[k].critique.score > 0
        /\ \A j \in 1..(k - 1) :
               iterations[j].critique # NoValue =>
                   iterations[j].critique.score < iterations[k].critique.score}

\* Watchdog.update_state_for_max_retries
update_state_for_max_retries(state) ==
    [state EXCEPT
        !.status = "max_retries",
        !.final_output =
            With(better_records(state.iterations), LAMBDA better :
                IF better = {} THEN state.final_output
                ELSE With(CHOOSE k \in better : \A j \in better : j <= k, LAMBDA best :
                        IF state.iterations[best].render_output # NoValue
                        THEN state.iterations[best].render_output
                        ELSE state.final_output))]

\* Watchdog.update_state_for_success
update_state_for_success(state) ==
    [state EXCEPT
        !.status = "success",
        !.final_output =
            IF /\ state.iterations # << >>
               /\ state.iterations[Len(state.iterations)].render_output # NoValue
            THEN state.iterations[Len(state.iterations)].render_output
            ELSE state.final_output]

\* Watchdog.update_state_for_failure
update_state_for_failure(state) == [state EXCEPT !.status = "failed"]

\* no GeneratorAgent.refine and no helper is called on its own
OnlyPipeline ==
    /\ NoApplyEdits
    /\ refine = NoRefine
    /\ helper = NoHelper

\* run is called: nothing but the arguments and the configuration is there
InitPipeline ==
    /\ pipeline \in [pc : {"mkdir"}, max_retries : 1..MaxRetries,
                      reference_images : {"none", "valid", "invalid"},
                      state : {NoValue}, feedback : {NoValue}, record : {NoValue},
                      caught : {NoValue}, raised : {NoValue}]
    /\ OnlyPipeline

rest_vars ==
    <<current_code, edits, working, i, pc, result, exception, trace, active, peer,
      refine, helper>>

\* lines 178-185: except Exception as e in run.  update_state_for_failure
\* reads the local state, which is unbound before line 146
RunExcept(state, e) ==
    /\ pipeline' =
           IF state = NoValue
           THEN [pipeline EXCEPT !.pc = "escaped", !.caught = [text |-> e],
                                 !.raised = [text |-> MsgUnboundState]]
           ELSE [pipeline EXCEPT !.pc = "returned", !.caught = [text |-> e],
                                 !.state = update_state_for_failure(state)]
    /\ UNCHANGED rest_vars

\* lines 113-123: the output directory is there or is made
Mkdir ==
    /\ pipeline.pc = "mkdir"
    /\ pipeline' = [pipeline EXCEPT !.pc = "clarify"]
    /\ UNCHANGED rest_vars

\* line 117: output_dir.mkdir raises, before the try of line 125: the
\* exception leaves run as it is
MkdirRaises ==
    /\ pipeline.pc = "mkdir"
    /\ pipeline' = [pipeline EXCEPT !.pc = "escaped", !.raised = [text |-> MsgMkdir]]
    /\ UNCHANGED rest_vars

\* lines 126-132: the clarification phase returns a UserPrompt
Clarify ==
    /\ pipeline.pc = "clarify"
    /\ pipeline' = [pipeline EXCEPT !.pc = "validate"]
    /\ UNCHANGED rest_vars

\* line 129: interactive, and planner.check_clarity or the callback raises
ClarifyRaises ==
    /\ pipeline.pc = "clarify"
    /\ \E e \in ErrorTexts : RunExcept(pipeline.state, e)

\* lines 139-150: the references are valid and state is initialized
Validate ==
    /\ pipeline.pc = "validate"
    /\ pipeline.reference_images # "invalid"
    /\ pipeline' = [pipeline EXCEPT !.pc = "analyze",
                                    !.state = PipelineState(pipeline.max_retries)]
    /\ UNCHANGED rest_vars

\* lines 140-143: raise ValueError("Reference image validation failed: ...")
ValidateRaises ==
    /\ pipeline.pc = "validate"
    /\ pipeline.reference_images = "invalid"
    /\ RunExcept(pipeline.state, "Reference image validation failed: Reference image not found: r")

\* lines 153-161: analyze_references, when there are references
Analyze ==
    /\ pipeline.pc = "analyze"
    /\ pipeline' = [pipeline EXCEPT !.pc = "plan"]
    /\ UNCHANGED rest_vars

AnalyzeRaises ==
    /\ pipeline.pc = "analyze"
    /\ pipeline.reference_images = "valid"
    /\ \E e \in ErrorTexts : RunExcept(pipeline.state, e)

\* lines 166-176: the scene is planned and _run_react_loop is called
Plan ==
    /\ pipeline.pc = "plan"
    /\ pipeline' = [pipeline EXCEPT !.pc = "loop"]
    /\ UNCHANGED rest_vars

PlanRaises ==
    /\ pipeline.pc = "plan"
    /\ \E e \in ErrorTexts : RunExcept(pipeline.state, e)

\* lines 228-233: the loop test holds and an iteration begins
LoopBegin ==
    /\ pipeline.pc = "loop"
    /\ can_continue(pipeline.state, pipeline.max_retries)
    /\ pipeline' = [pipeline EXCEPT
                       !.pc = "generate",
                       !.record = IterationRecord(pipeline.state.current_iteration + 1)]
    /\ UNCHANGED rest_vars

\* lines 325-328: the loop test fails
LoopMaxRetries ==
    /\ pipeline.pc = "loop"
    /\ ~can_continue(pipeline.state, pipeline.max_retries)
    /\ pipeline' = [pipeline EXCEPT
                       !.pc = "loop_returned",
                       !.state = update_state_for_max_retries(pipeline.state)]
    /\ UNCHANGED rest_vars

\* if feedback
feedback_truthy == pipeline.feedback # NoValue /\ pipeline.feedback.text # ""

\* state.iterations[-1].script
original_script == pipeline.state.iterations[Len(pipeline.state.iterations)].script

\* lines 298-301: except Exception as e in the iteration
IterationRaised(e) ==
    /\ pipeline' = [pipeline EXCEPT
                       !.pc = "record",
                       !.record.error = [text |-> e],
                       !.feedback = [text |-> "Error in previous iteration: " \o e]]
    /\ UNCHANGED rest_vars

\* lines 251-252: record.script = script
ScriptGenerated(edit_based) ==
    /\ pipeline' = [pipeline EXCEPT
                       !.pc = "execute",
                       !.record.script = [iteration |-> pipeline.record.iteration,
                                          edit_based |-> edit_based]]
    /\ UNCHANGED rest_vars

\* lines 246-250: generator.generate returns
Generate ==
    /\ pipeline.pc = "generate"
    /\ ~feedback_truthy
    /\ ScriptGenerated(FALSE)

GenerateRaises ==
    /\ pipeline.pc = "generate"
    /\ ~feedback_truthy
    /\ \E e \in ErrorTexts : IterationRaised(e)

\* lines 239-245: generator.refine returns an edited or a regenerated script
Refine ==
    /\ pipeline.pc = "generate"
    /\ feedback_truthy
    /\ original_script # NoValue
    /\ \E edit_based \in BOOLEAN : ScriptGenerated(edit_based)

\* generator.refine raises: the generate() of its fallback raised
RefineRaises ==
    /\ pipeline.pc = "generate"
    /\ feedback_truthy
    /\ original_script # NoValue
    /\ \E e \in ErrorTexts : IterationRaised(e)

\* generator.refine gets original_script = None: original_script.code raises
\* inside its try (generator.py:264), original_script.iteration raises in
\* its fallback (generator.py:295)
RefineNoneScript ==
    /\ pipeline.pc = "generate"
    /\ feedback_truthy
    /\ original_script = NoValue
    /\ IterationRaised(MsgNoneScript)

\* lines 257-258: executor.execute returns
Execute ==
    /\ pipeline.pc = "execute"
    /\ pipeline' = [pipeline EXCEPT
                       !.pc = "critique",
                       !.record.render_output = [iteration |-> pipeline.record.iteration]]
    /\ UNCHANGED rest_vars

ExecuteRaises ==
    /\ pipeline.pc = "execute"
    /\ \E e \in ErrorTexts : IterationRaised(e)

\* lines 264-270: the call of critic.critique raises TypeError, as it
\* passes reference_images; lines 271-296 are not reached
CritiqueRaises ==
    /\ pipeline.pc = "critique"
    /\ IterationRaised(MsgCritiqueKeyword)

\* line 304: state.add_iteration(record)
AddIteration ==
    /\ pipeline.pc = "record"
    /\ pipeline' = [pipeline EXCEPT
                       !.pc = "callback",
                       !.state = add_iteration(pipeline.state, pipeline.record)]
    /\ UNCHANGED rest_vars

\* the critiques a callback stores in the record it is handed
CallbackCritiques ==
    {CritiqueResult("pass", 80, << >>, << >>), CritiqueResult("fail", 50, << >>, << >>),
     CritiqueResult("fail", 25, << >>, << >>), CritiqueResult("fail", 10, << >>, << >>)}

\* the record after on_iteration(record) has returned or raised: as it was, or with a
\* critique or an error the callback has put there (the record is the object
\* that state.iterations holds)
CallbackRecords(record) ==
    {record}
    \cup {[record EXCEPT !.critique = c] : c \in CallbackCritiques}
    \cup {[record EXCEPT !.error = [text |-> "other"]]}

\* the state once the callback has returned, record being the record as
\* the callback has left it
after_callback(state, record) ==
    [state EXCEPT !.iterations[Len(state.iterations)] = record]

\* line 308: on_iteration(record) raises, having left the record as it was
\* or having written to it; that ends _run_react_loop and is caught in run
\* (lines 178-180), where state is bound and holds the record as the
\* callback has left it
CallbackRaises ==
    /\ pipeline.pc = "callback"
    /\ \E record \in CallbackRecords(pipeline.record) : \E e \in ErrorTexts :
           pipeline' = [pipeline EXCEPT
                           !.pc = "returned", !.caught = [text |-> e],
                           !.record = record,
                           !.state = update_state_for_failure(
                                         after_callback(pipeline.state, record))]
    /\ UNCHANGED rest_vars

\* lines 307-323: there is no callback, or on_iteration(record) returns; then
\* the loop returns SUCCESS, stops early with FAILED, or goes on
Check ==
    /\ pipeline.pc = "callback"
    /\ \E record \in CallbackRecords(pipeline.record) :
       \E state \in {after_callback(pipeline.state, record)} :
           pipeline' =
               IF check_completion(state)
               THEN [pipeline EXCEPT !.pc = "loop_returned", !.record = record,
                                     !.state = update_state_for_success(state)]
               ELSE IF should_stop_early(state)
               THEN [pipeline EXCEPT !.pc = "loop_returned", !.record = record,
                                     !.state = update_state_for_failure(state)]
               ELSE [pipeline EXCEPT !.pc = "loop", !.record = record, !.state = state]
    /\ UNCHANGED rest_vars

\* lines 176-185: _run_react_loop has returned, run logs and returns state
RunReturns ==
    /\ pipeline.pc = "loop_returned"
    /\ pipeline' = [pipeline EXCEPT !.pc = "returned"]
    /\ UNCHANGED rest_vars

NextPipeline ==
    \/ Mkdir
    \/ MkdirRaises
    \/ Clarify
    \/ ClarifyRaises
    \/ Validate
    \/ ValidateRaises
    \/ Analyze
    \/ AnalyzeRaises
    \/ Plan
    \/ PlanRaises
    \/ LoopBegin
    \/ LoopMaxRetries
    \/ Generate
    \/ GenerateRaises
    \/ Refine
    \/ RefineRaises
    \/ RefineNoneScript
    \/ Execute
    \/ ExecuteRaises
    \/ CritiqueRaises
    \/ AddIteration
    \/ CallbackRaises
    \/ Check
    \/ RunReturns

SpecPipeline == InitPipeline /\ [][NextPipeline]_vars

\* every step of run is taken as long as the call it makes returns or raises
SpecPipelineFair == SpecPipeline /\ WF_vars(NextPipeline)

\* ------------------------------------------------------------------------
\* CriticAgent._parse_response called on its own (critic.py)
\* ------------------------------------------------------------------------

\* JSON values: a number is held in tenths (7.0 is 70)
JsonText(s) == [t |-> "str", s |-> s]

\* the key is not in the object
JsonMissing == [t |-> "missing"]

\* no JSON text was found in the response, or it does not decode
NoJsonFound == [ok |-> FALSE]

JsonNull == [t |-> "null"]

JsonTrue == [t |-> "true"]

\* a float, such as 8.0 or 6.9
JsonNum(tenths) == [t |-> "num", n |-> tenths]

\* an int, such as 8
JsonInt(units) == [t |-> "int", n |-> units]

\* a text json.loads gives up on with RecursionError: it nests deeper than
\* the recursion limit; kind is what was being decoded when the limit was
\* hit, "object" or "array"
JsonTooDeep(kind) == [t |-> "too deep", kind |-> kind]

\* NaN, which json.loads accepts
JsonNaN == [t |-> "nan"]

\* an integer too large for a float, such as 10 ** 400
JsonBigInt == [t |-> "bigint"]

JsonList(items) == [t |-> "list", items |-> items]

\* the values of the key "verdict" of the decoded object
VerdictValues ==
    {JsonMissing, JsonNull, JsonTrue, JsonText("pass"), JsonText("fail"), JsonText("PASS"),
     JsonText("Fail"), JsonText("maybe")}

\* the values of the key "score" of the decoded object
ScoreValues ==
    {JsonMissing, JsonNull, JsonTrue, JsonNaN, JsonBigInt, JsonList(<< >>), JsonText("8"),
     JsonText("x")}
    \cup {JsonNum(n) : n \in {-30, 0, 50, 69, 70, 85, 100, 150}}
    \cup {JsonInt(n) : n \in {5, 7, 11}}

\* the values of the keys "issues" and "suggestions" of the decoded object
ListValues ==
    {JsonMissing, JsonNull, JsonTrue, JsonText(""), JsonText("i"), JsonList(<< >>),
     JsonList(<<JsonText("i")>>), JsonList(<<JsonText("i"), JsonNum(10)>>)}

\* the decoded values that are not an object
NonObjects ==
    {JsonNull, JsonTrue, JsonNum(80), JsonInt(8), JsonText("pass"), JsonList(<< >>)}

\* the decoded objects
Objects ==
    [t : {"dict"}, verdict : VerdictValues, score : ScoreValues, issues : ListValues,
     suggestions : {JsonMissing, JsonText("s"), JsonList(<<JsonNull>>)}]

\* what the search for the JSON text and json.loads make of a response
\* (lines 141-177)
CriticData ==
    {NoJsonFound} \cup {JsonTooDeep(kind) : kind \in {"object", "array"}}
    \cup NonObjects \cup Objects

\* the pass_threshold values of a CriticAgent, in tenths
PassThresholds == {50, pass_threshold * 10, 100}

\* type(v).__name__
type_name(v) ==
    CASE v.t = "str" -> "str"
      [] v.t = "null" -> "NoneType"
      [] v.t = "true" -> "bool"
      [] v.t = "num" -> "float"
      [] v.t = "int" -> "int"
      [] v.t = "list" -> "list"

\* str(v)
py_str(v) ==
    CASE v.t = "str" -> v.s
      [] v.t = "null" -> "None"
      [] v.t = "true" -> "True"

\* bool(v)
py_bool(v) ==
    CASE v.t = "str" -> v.s # ""
      [] v.t = "null" -> FALSE
      [] v.t = "true" -> TRUE

\* s.lower()
lower(s) ==
    CASE s = "PASS" -> "pass"
      [] s = "Fail" -> "fail"
      [] s = "None" -> "none"
      [] s = "True" -> "true"
      [] OTHER -> s

\* line 180: str(data.get("verdict", "fail")).lower()
verdict_str(data) ==
    lower(py_str(IF data.verdict = JsonMissing THEN JsonText("fail") ELSE data.verdict))

\* the default score 5.0
DefaultScore == 50

\* float(raw_score): the value in tenths (10.1 standing for nan, which
\* min(10.0, nan) turns into 10.0), or the exception raised
py_float(v) ==
    CASE v.t = "num" -> [ok |-> TRUE, v |-> v.n, e |-> ""]
      [] v.t = "int" -> [ok |-> TRUE, v |-> 10 * v.n, e |-> ""]
      [] v.t = "true" -> [ok |-> TRUE, v |-> 10, e |-> ""]
      [] v.t = "nan" -> [ok |-> TRUE, v |-> 101, e |-> ""]
      [] v.t = "str" /\ v.s = "8" -> [ok |-> TRUE, v |-> 80, e |-> ""]
      [] v.t = "str" /\ v.s # "8" -> [ok |-> FALSE, v |-> 0, e |-> "ValueError"]
      [] v.t = "bigint" -> [ok |-> FALSE, v |-> 0, e |-> "OverflowError"]
      [] OTHER -> [ok |-> FALSE, v |-> 0, e |-> "TypeError"]

\* line 183: raw_score = data.get("score", 5.0)
raw_score(data) == IF data.score = JsonMissing THEN JsonNum(DefaultScore) ELSE data.score

\* lines 184-190: the score, clamped to 0.0 .. 10.0, or 5.0 when float()
\* raises TypeError or ValueError
clamped_score(data) ==
    With(py_float(raw_score(data)),
         LAMBDA f : IF f.ok THEN Max(0, Min(100, f.v)) ELSE DefaultScore)

\* lines 192-198: the final verdict
final_verdict(data, threshold) ==
    IF verdict_str(data) = "pass" /\ clamped_score(data) >= threshold THEN "pass"
    ELSE IF clamped_score(data) >= threshold THEN "pass"
    ELSE "fail"

\* lines 202-206: the list passed for issues or suggestions
as_list(v) ==
    IF v = JsonMissing THEN << >>
    ELSE IF v.t = "list" THEN v.items
    ELSE IF py_bool(v) THEN <<JsonText(py_str(v))>>
    ELSE << >>

\* list[str] of CritiqueResult: every item is a str
valid_list(items) == \A k \in 1..Len(items) : items[k].t = "str"

\* lines 216-226: the result made of a response that could not be used
DefaultCritique ==
    CritiqueResult("fail", DefaultScore, <<"Critique parsing failed">>,
                   <<"Continue iterating based on the raw feedback above">>)

\* the exception that leaves _parse_response: RecursionError of json.loads
\* (line 169), AttributeError of data.get on a value that is not a dict
\* (line 180), OverflowError of float() (line 185); "" when none does
parse_response_raises(data) ==
    IF data = NoJsonFound THEN ""
    ELSE IF data.t = "too deep"
    THEN "maximum recursion depth exceeded while decoding a JSON " \o data.kind
         \o " from a unicode string"
    ELSE IF data.t # "dict" THEN "'" \o type_name(data) \o "' object has no attribute 'get'"
    ELSE IF py_float(raw_score(data)).e = "OverflowError"
    THEN "int too large to convert to float"
    ELSE ""

\* _parse_response from the decoded value on, when it returns
parse_response(data, threshold) ==
    IF data = NoJsonFound THEN DefaultCritique
    ELSE IF ~(valid_list(as_list(data.issues)) /\ valid_list(as_list(data.suggestions)))
    THEN DefaultCritique
    ELSE CritiqueResult(final_verdict(data, threshold), clamped_score(data),
                        [k \in 1..Len(as_list(data.issues)) |-> as_list(data.issues)[k].s],
                        [k \in 1..Len(as_list(data.suggestions)) |->
                            as_list(data.suggestions)[k].s])

InitCritic ==
    /\ helper \in [pc : {"called"}, fn : {"_parse_response"}, data : CriticData,
                    pass_threshold : PassThresholds, value : {NoValue}]
    /\ NoApplyEdits
    /\ refine = NoRefine
    /\ pipeline = NoPipeline

\* _parse_response(response, iteration) returns
ParseResponseReturns ==
    /\ helper.pc = "called"
    /\ helper.fn = "_parse_response"
    /\ parse_response_raises(helper.data) = ""
    /\ helper' = [helper EXCEPT !.pc = "returned",
                     !.value = parse_response(helper.data, helper.pass_threshold)]
    /\ UNCHANGED <<current_code, edits, working, i, pc, result, exception, trace, active,
                   peer, refine, pipeline>>

\* _parse_response(response, iteration) raises
ParseResponseRaises ==
    /\ helper.pc = "called"
    /\ helper.fn = "_parse_response"
    /\ parse_response_raises(helper.data) # ""
    /\ helper' = [helper EXCEPT !.pc = "raised",
                     !.value = [text |-> parse_response_raises(helper.data)]]
    /\ UNCHANGED <<current_code, edits, working, i, pc, result, exception, trace, active,
                   peer, refine, pipeline>>

NextCritic ==
    \/ ParseResponseReturns
    \/ ParseResponseRaises

SpecCritic == InitCritic /\ [][NextCritic]_vars

\* ------------------------------------------------------------------------
\* Vocabulary of the properties
\* ------------------------------------------------------------------------

Returned == pc = "returned"

Ended == pc # "running"

\* text with trailing whitespace stripped from every line
TrimmedView(text) == join(rstrip_lines(split(text)))

\* the occurrences of old_code in code at normalization level j, by start
\* offset in the view of that level (level 3: by depth and offset)
LevelOcc(j, code, old_code) ==
    CASE j = 1 -> occurrences(code, old_code, 0)
      [] j = 2 -> occurrences(TrimmedView(code), TrimmedView(old_code), 0)
      [] j = 3 ->
           IF detect_indent(old_code) = NoIndent THEN {}
           ELSE UNION {{<<d, p>> : p \in occurrences(code,
                           reindent(old_code, detect_indent(old_code), d), 0)}
                       : d \in code_indents(code) \ {detect_indent(old_code)}}
      [] j = 4 -> occurrences(strip_blank_lines_with_spans(code).stripped_text,
                              strip_blank_lines(old_code), 0)

\* j is the first level at which old_code occurs in code at all
FirstLevel(j, code, old_code) ==
    /\ LevelOcc(j, code, old_code) # {}
    /\ \A h \in 1..(j - 1) : LevelOcc(h, code, old_code) = {}

\* sub occurs in s
Contains(s, sub) == occurrences(s, sub, 0) # {}

\* s with [start, end) replaced by new_code, for 0 <= start <= end <= Len(s)
Replaced(s, start, end, new_code) ==
    [k \in 1..(Len(s) - (end - start) + Len(new_code)) |->
        IF k <= start THEN s[k]
        ELSE IF k <= start + Len(new_code) THEN new_code[k - start]
        ELSE s[k - Len(new_code) + (end - start)]]

\* ------------------------------------------------------------------------
\* C1
\* ------------------------------------------------------------------------

\* C1: whenever apply_edits returns success = false, the returned code is the
\* input buffer and applied_count is 0, whatever was spliced into the working
\* buffer before the failing edit.
C1_AtomicRollback ==
    (Returned /\ ~result.success) =>
        (result.code = current_code /\ result.applied_count = 0)

\* a failed batch whose earlier edits had changed the working buffer
C1_Witness ==
    /\ Returned
    /\ ~result.success
    /\ i >= 1
    /\ working # current_code

\* ------------------------------------------------------------------------
\* C2
\* ------------------------------------------------------------------------

\* C2: when the old_code of edit k is ambiguous under the cascade, apply_edits
\* returns (does not raise) a result with success = false, the original
\* buffer, applied_count 0 and an error naming the 1-based index k.
C2_AmbiguityIsAResult ==
    \A k \in 1..Len(trace) :
        trace[k].match.kind = "raise" =>
            /\ Returned
            /\ ~result.success
            /\ result.code = current_code
            /\ result.applied_count = 0
            /\ result.error # NoError
            /\ result.error[2] = k

\* ------------------------------------------------------------------------
\* C3
\* ------------------------------------------------------------------------

\* C3 as stated: a single edit whose non-empty old_code occurs exactly once
\* under some normalization level (literally, line-trimmed, re-indented to a
\* depth present in the buffer, blank lines removed) succeeds with
\* applied_count = 1.  Stated for snippets that have a non-blank character,
\* so that no normalized snippet is the empty text.
C3_UniqueAtSomeLevel ==
    (/\ Ended
     /\ Len(edits) = 1
     /\ detect_indent(get(edits[1], "old_code")) # NoIndent
     /\ \/ \E j \in {1, 2, 4} :
              Cardinality(LevelOcc(j, current_code, get(edits[1], "old_code"))) = 1
        \/ \E d \in code_indents(current_code) :
              Cardinality(occurrences(current_code,
                  reindent(get(edits[1], "old_code"),
                           detect_indent(get(edits[1], "old_code")), d), 0)) = 1)
    => (Returned /\ result.success /\ result.applied_count = 1)

\* C3 amended: a single edit whose non-empty old_code occurs exactly once at
\* the first level of the cascade order (literal, line-trimmed, re-indented
\* to a depth of the buffer other than its own, blank lines removed) at which
\* it occurs at all succeeds with applied_count = 1.
C3_UniqueAtFirstLevel ==
    (/\ Ended
     /\ Len(edits) = 1
     /\ get(edits[1], "old_code") # << >>
     /\ \E j \in 1..NumMatchers :
          /\ FirstLevel(j, current_code, get(edits[1], "old_code"))
          /\ Cardinality(LevelOcc(j, current_code, get(edits[1], "old_code"))) = 1)
    => (Returned /\ result.success /\ result.applied_count = 1)

\* a single edit applied through a unique match at a level looser than the
\* literal one
C3_Witness ==
    /\ Returned
    /\ result.success
    /\ Len(edits) = 1
    /\ \E j \in 2..NumMatchers :
          /\ FirstLevel(j, current_code, get(edits[1], "old_code"))
          /\ Cardinality(LevelOcc(j, current_code, get(edits[1], "old_code"))) = 1

\* ------------------------------------------------------------------------
\* C4
\* ------------------------------------------------------------------------

\* C4: a span returned by locate_edit comes from a matcher in whose view the
\* snippet occurs exactly once; and when the snippet occurs two or more
\* times (overlaps included) at the first level that finds it at all, the
\* lookup ends with an ambiguity error, never a span.
C4_NeverFirstOfSeveral ==
    \A k \in 1..Len(trace) :
        /\ trace[k].match.kind = "span" =>
              Cardinality(LevelOcc(Len(trace[k].calls), trace[k].code,
                                   trace[k].old_code)) = 1
        /\ \A j \in 1..NumMatchers :
              (/\ FirstLevel(j, trace[k].code, trace[k].old_code)
               /\ Cardinality(LevelOcc(j, trace[k].code, trace[k].old_code)) >= 2)
              => trace[k].match.kind = "raise"

\* a lookup that ended with an ambiguity error on two overlapping occurrences
C4_Witness ==
    \E k \in 1..Len(trace) :
        /\ trace[k].match.kind = "raise"
        /\ trace[k].code = <<"a", "a", "a">>
        /\ trace[k].old_code = <<"a", "a">>

\* ------------------------------------------------------------------------
\* C5
\* ------------------------------------------------------------------------

\* the buffer after the first k splices of the spans the lookups returned
RECURSIVE FoldTo(_)
FoldTo(k) ==
    IF k = 0 THEN current_code
    ELSE Replaced(FoldTo(k - 1), trace[k].match.start, trace[k].match.end,
                  get(edits[k], "new_code"))

AllLocated ==
    /\ edits # << >>
    /\ Len(trace) = Len(edits)
    /\ \A k \in 1..Len(trace) : trace[k].match.kind = "span"

\* C5: when every edit of a non-empty batch is located, apply_edits returns
\* success = true, applied_count = len(edits), no error, and the code obtained
\* by replacing, for i = 1..n in order, the span located for edit i in the
\* working buffer by new_code_i (an empty new_code deletes the span).
C5_SuccessIsFoldOfSplices ==
    (Ended /\ AllLocated) =>
        /\ Returned
        /\ result = EditResult(TRUE, FoldTo(Len(edits)), Len(edits), NoError)
        /\ \A k \in 1..Len(edits) :
              /\ trace[k].code = FoldTo(k - 1)
              /\ trace[k].old_code = get(edits[k], "old_code")

\* two edits applied, the second one a deletion of one character or more
C5_Witness ==
    /\ Returned
    /\ AllLocated
    /\ Len(edits) = 2
    /\ trace[1].code # trace[2].code
    /\ get(edits[2], "new_code") = << >>
    /\ trace[2].match.start < trace[2].match.end
    /\ Len(result.code) < Len(trace[2].code)

\* ------------------------------------------------------------------------
\* C6
\* ------------------------------------------------------------------------

\* edit 1 is located, and the old_code of edit 2 occurs nowhere in the
\* original buffer and exactly once in the buffer edit 1 produces
TargetMadeByEdit1 ==
    /\ Len(edits) = 2
    /\ Len(trace) >= 1
    /\ trace[1].match.kind = "span"
    /\ occurrences(current_code, get(edits[2], "old_code"), 0) = {}
    /\ Cardinality(occurrences(
           Replaced(current_code, trace[1].match.start, trace[1].match.end,
                    get(edits[1], "new_code")),
           get(edits[2], "old_code"), 0)) = 1

\* C6: each edit is located in the current working buffer: a two-edit batch
\* whose second old_code does not occur in the original buffer but occurs
\* exactly once in the buffer produced by edit 1 succeeds with
\* applied_count = 2, and the final code contains edit 2's new_code.
C6_SequentialComposition ==
    (Ended /\ TargetMadeByEdit1) =>
        /\ Returned
        /\ result.success
        /\ result.applied_count = 2
        /\ Contains(result.code, get(edits[2], "new_code"))

\* such a batch has run, and its second edit put in a non-empty text
C6_Witness ==
    /\ Returned
    /\ TargetMadeByEdit1
    /\ result.applied_count = 2
    /\ get(edits[2], "new_code") # << >>

\* ------------------------------------------------------------------------
\* C7
\* ------------------------------------------------------------------------

\* C7: apply_edits(buffer, []) returns success = true, the buffer itself,
\* applied_count = 0 and no error.
C7_EmptyBatchIsNoOp ==
    (Ended /\ edits = << >>) =>
        (Returned /\ result = EditResult(TRUE, current_code, 0, NoError))

\* an empty batch has returned for a non-empty buffer
C7_Witness ==
    /\ Returned
    /\ edits = << >>
    /\ current_code # << >>

\* ------------------------------------------------------------------------
\* C8
\* ------------------------------------------------------------------------

\* C8: when the first edit that cannot be applied, edit k, has an empty or
\* missing old_code, apply_edits returns success = false, the original
\* buffer, applied_count = 0 and the error "Edit k: old_code is empty" with
\* the 1-based k, and locate_edit is not called for that edit.
C8_EmptyOldCodeFails ==
    \A k \in 1..Len(edits) :
        (/\ Ended
         /\ i = k - 1
         /\ get(edits[k], "old_code") = << >>)
        => /\ Returned
           /\ result = EditResult(FALSE, current_code, 0,
                                  <<"Edit ", k, ": old_code is empty">>)
           /\ Len(trace) = k - 1

\* the second edit has no old_code key, after a first edit that was spliced
C8_Witness ==
    /\ Returned
    /\ Len(edits) = 2
    /\ i = 1
    /\ "old_code" \notin DOMAIN edits[2]
    /\ working # current_code

\* ------------------------------------------------------------------------
\* C9
\* ------------------------------------------------------------------------

\* C9: when all four matchers report no match for the old_code of edit k,
\* locate_edit returns None (it does not raise) and apply_edits returns
\* success = false, the original buffer, applied_count = 0 and the error
\* "Edit k: old_code not found in script" with the 1-based k.
C9_NotFoundIsAFailureValue ==
    \A k \in 1..Len(trace) :
        (\A j \in 1..NumMatchers : matcher(j, trace[k].code, trace[k].old_code) = None)
        => /\ trace[k].match = None
           /\ Returned
           /\ result = EditResult(FALSE, current_code, 0,
                                  <<"Edit ", k, ": old_code not found in script">>)

\* the second edit is not found, in a working buffer the first edit changed
C9_Witness ==
    /\ Returned
    /\ Len(trace) = 2
    /\ trace[2].match = None
    /\ trace[2].code # current_code

\* ------------------------------------------------------------------------
\* C10
\* ------------------------------------------------------------------------

\* C10: locate_edit consults exact, line-trimmed, indentation-flexible and
\* blank-line-flexible in this order, matcher j + 1 only if matchers 1..j
\* all returned not-found, and the first span or ambiguity error is the final
\* outcome; two or more literal occurrences end the lookup with an ambiguity
\* error whatever a looser matcher would find.
C10_CascadeOrderAndFinality ==
    \A k \in 1..Len(trace) :
        LET c == trace[k]
            n == Len(c.calls)
        IN  /\ n \in 1..NumMatchers
            /\ c.calls[1] = exact_match(c.code, c.old_code)
            /\ n >= 2 => c.calls[2] = line_trimmed_match(c.code, c.old_code)
            /\ n >= 3 => c.calls[3] = indentation_flexible_match(c.code, c.old_code)
            /\ n >= 4 => c.calls[4] = blank_line_flexible_match(c.code, c.old_code)
            /\ \A j \in 1..(n - 1) : c.calls[j] = None
            /\ n < NumMatchers => c.calls[n] # None
            /\ c.match = c.calls[n]
            /\ Cardinality(occurrences(c.code, c.old_code, 0)) >= 2 =>
                  (n = 1 /\ c.match = ValueError(MsgExact))

\* a lookup ended by the exact matcher's ambiguity error although a looser
\* matcher alone returns a span
C10_Witness ==
    \E k \in 1..Len(trace) :
        /\ trace[k].calls = <<ValueError(MsgExact)>>
        /\ \E j \in 2..NumMatchers :
              matcher(j, trace[k].code, trace[k].old_code).kind = "span"

\* ------------------------------------------------------------------------
\* C11
\* ------------------------------------------------------------------------

\* C11: when old_code occurs exactly once as a literal substring of the
\* buffer, at offset p, locate_edit returns (p, p + len(old_code)), so that
\* buffer[start:end] = old_code, whatever a looser matcher would report.
C11_ExactSpan ==
    \A k \in 1..Len(trace) :
        \A p \in 0..Len(trace[k].code) :
            occurrences(trace[k].code, trace[k].old_code, 0) = {p} =>
                /\ trace[k].match = Span(p, p + Len(trace[k].old_code))
                /\ slice(trace[k].code, trace[k].match.start, trace[k].match.end)
                       = trace[k].old_code

\* a lookup of a snippet with one literal occurrence that a looser matcher,
\* asked alone, reports as ambiguous
C11_Witness ==
    \E k \in 1..Len(trace) :
        /\ Cardinality(occurrences(trace[k].code, trace[k].old_code, 0)) = 1
        /\ trace[k].match.kind = "span"
        /\ \E j \in 2..NumMatchers :
              matcher(j, trace[k].code, trace[k].old_code).kind = "raise"

\* ------------------------------------------------------------------------
\* C12
\* ------------------------------------------------------------------------

\* the lookup of edit k was settled by matcher j with a span
SpanFrom(j, k) ==
    /\ k <= Len(trace)
    /\ Len(trace[k].calls) = j
    /\ trace[k].match.kind = "span"

\* C12: when old_code does not occur literally in the buffer and its
\* line-trimmed text occurs exactly once in the line-trimmed buffer, the
\* line-trimmed matcher returns a span and the edit is applied (a single
\* edit succeeds with applied_count = 1), whichever side has the extra
\* trailing whitespace.
C12_LineTrimmedApplies ==
    \A k \in 1..Len(trace) :
        (/\ LevelOcc(1, trace[k].code, trace[k].old_code) = {}
         /\ Cardinality(LevelOcc(2, trace[k].code, trace[k].old_code)) = 1)
        => /\ SpanFrom(2, k)
           /\ i >= k
           /\ (Ended /\ Len(edits) = 1) =>
                 (Returned /\ result.success /\ result.applied_count = 1)

\* two edits applied through the line-trimmed matcher: one whose old_code
\* has trailing whitespace the buffer lacks, one whose buffer has trailing
\* whitespace old_code lacks
C12_Witness ==
    /\ Returned
    /\ result.success
    /\ SpanFrom(2, 1)
    /\ SpanFrom(2, 2)
    /\ \A k \in 1..2 : trace[k].match.start < trace[k].match.end
    /\ \E k \in 1..2 :
          /\ TrimmedView(trace[k].old_code) # trace[k].old_code
          /\ TrimmedView(trace[k].code) = trace[k].code
    /\ \E k \in 1..2 :
          /\ TrimmedView(trace[k].old_code) = trace[k].old_code
          /\ TrimmedView(trace[k].code) # trace[k].code

\* ------------------------------------------------------------------------
\* C13
\* ------------------------------------------------------------------------

\* C13: when old_code occurs neither literally nor line-trimmed, and old_code
\* shifted from the depth of its first non-blank line to a depth d of the
\* buffer other than its own occurs in the buffer for exactly one such d and
\* exactly once there, at offset p, locate_edit returns the span of that
\* occurrence from the indentation-flexible matcher, and buffer[start:end]
\* is the re-indented old_code.
C13_ReindentedSpan ==
    \A k \in 1..Len(trace) :
        \A h \in LevelOcc(3, trace[k].code, trace[k].old_code) :
            (/\ LevelOcc(1, trace[k].code, trace[k].old_code) = {}
             /\ LevelOcc(2, trace[k].code, trace[k].old_code) = {}
             /\ LevelOcc(3, trace[k].code, trace[k].old_code) = {h})
            => /\ SpanFrom(3, k)
               /\ trace[k].match.start = h[2]
               /\ slice(trace[k].code, trace[k].match.start, trace[k].match.end)
                     = reindent(trace[k].old_code, detect_indent(trace[k].old_code), h[1])

\* a lookup settled by the indentation-flexible matcher for an old_code of
\* two lines of different depths, found deeper in the buffer
C13_Witness ==
    /\ SpanFrom(3, 1)
    /\ Cardinality(code_indents(trace[1].old_code)) = 2
    /\ trace[1].match.end - trace[1].match.start > Len(trace[1].old_code)

\* ------------------------------------------------------------------------
\* C14
\* ------------------------------------------------------------------------

\* C14: when the indentation-flexible matcher is reached (old_code occurs
\* neither literally nor line-trimmed) and the re-indented variants of
\* old_code occur at two or more distinct depths of the buffer, or the
\* variant of one depth occurs more than once, the lookup ends there with an
\* ambiguity error and the blank-line-flexible matcher is not tried.
C14_IndentAmbiguityRaises ==
    \A k \in 1..Len(trace) :
        (/\ LevelOcc(1, trace[k].code, trace[k].old_code) = {}
         /\ LevelOcc(2, trace[k].code, trace[k].old_code) = {}
         /\ Cardinality(LevelOcc(3, trace[k].code, trace[k].old_code)) >= 2)
        => /\ Len(trace[k].calls) = 3
           /\ trace[k].match.kind = "raise"
           /\ trace[k].match.msg \in {MsgReindented, MsgIndentLevels}
           /\ pc = "raised"

\* a lookup ended by the indentation-flexible matcher because old_code,
\* re-indented, occurs once at each of two depths of the buffer
C14_Witness ==
    \E k \in 1..Len(trace) :
        /\ trace[k].match = ValueError(MsgIndentLevels)
        /\ Cardinality(LevelOcc(3, trace[k].code, trace[k].old_code)) = 2
        /\ Cardinality({h[1] : h \in LevelOcc(3, trace[k].code, trace[k].old_code)}) = 2

\* ------------------------------------------------------------------------
\* C15
\* ------------------------------------------------------------------------

\* C15: when no stricter matcher finds old_code (it occurs neither
\* literally, nor line-trimmed, nor re-indented) and old_code without its
\* whitespace-only lines occurs exactly once in the buffer without its
\* whitespace-only lines, the blank-line-flexible matcher returns a span and
\* the edit is applied (a single edit succeeds with applied_count = 1),
\* whichever side has the extra blank lines.
C15_BlankLineFlexibleApplies ==
    \A k \in 1..Len(trace) :
        (/\ \A j \in 1..3 : LevelOcc(j, trace[k].code, trace[k].old_code) = {}
         /\ Cardinality(LevelOcc(4, trace[k].code, trace[k].old_code)) = 1)
        => /\ SpanFrom(4, k)
           /\ i >= k
           /\ (Ended /\ Len(edits) = 1) =>
                 (Returned /\ result.success /\ result.applied_count = 1)

\* an edit applied through the blank-line-flexible matcher where old_code
\* has a blank line and the text matched in the buffer has another one, in
\* a place where old_code has none
C15_Witness ==
    /\ Returned
    /\ result.success
    /\ SpanFrom(4, 1)
    /\ strip_blank_lines(trace[1].old_code) # trace[1].old_code
    /\ strip_blank_lines(trace[1].old_code) = <<"a", NL, "a">>
    /\ slice(trace[1].code, trace[1].match.start, trace[1].match.end)
           = <<"a", NL, NL, "a">>

\* ------------------------------------------------------------------------
\* C16
\* ------------------------------------------------------------------------

\* the parts of the original buffer outside the span located for edit 1
Outside ==
    slice(current_code, 0, trace[1].match.start)
        \o slice(current_code, trace[1].match.end, Len(current_code))

\* C16: for every successful single-edit call, whichever matcher located
\* the edit, the span lies within the original buffer and the result is the
\* original buffer with [start, end) replaced by new_code: every character
\* outside the span is carried over unchanged, in order, trailing whitespace
\* and blank lines included.
C16_OnlySpanReplaced ==
    (Returned /\ result.success /\ Len(edits) = 1) =>
        /\ Len(trace) = 1
        /\ trace[1].code = current_code
        /\ 0 <= trace[1].match.start
        /\ trace[1].match.start <= trace[1].match.end
        /\ trace[1].match.end <= Len(current_code)
        /\ result.code = Replaced(current_code, trace[1].match.start,
                                  trace[1].match.end, get(edits[1], "new_code"))

\* an edit located by a normalizing matcher, with trailing whitespace and a
\* whitespace-only line outside the span
C16_Witness ==
    /\ Returned
    /\ result.success
    /\ Len(edits) = 1
    /\ Len(trace[1].calls) >= 2
    /\ trace[1].match.start < trace[1].match.end
    /\ TrimmedView(Outside) # Outside
    /\ strip_blank_lines(Outside) # Outside

\* ------------------------------------------------------------------------
\* C17
\* ------------------------------------------------------------------------

\* the arguments call c holds
InputOf(c) ==
    IF active = c THEN <<current_code, edits>> ELSE <<peer.current_code, peer.edits>>

\* what the call of frame f has ended with
OutcomeOf(f) == [pc |-> f.pc, result |-> f.result, exception |-> f.exception]

\* every call that has ended has ended as it does when run alone on its
\* arguments
SameAsAlone ==
    \A f \in {Frame, peer} :
        (f # NoPeer /\ f.pc # "running") =>
            OutcomeOf(f) = apply_edits(f.current_code, f.edits)

\* C17: two apply_edits calls on independent (buffer, edits) arguments,
\* interleaved in any order between the steps of single edits, each end with
\* the EditResult (or the error) they end with when run alone, and no step
\* of either call changes the buffer or the edit list of any call.
C17_IndependentCalls ==
    /\ []SameAsAlone
    /\ [][InputOf(1)' = InputOf(1) /\ InputOf(2)' = InputOf(2)]_vars

\* a call has applied two edits and returned while the other call, which has
\* applied the first of its two edits, is suspended
C17_Witness ==
    /\ Returned
    /\ result.success
    /\ result.applied_count = 2
    /\ result.code # current_code
    /\ peer # NoPeer
    /\ peer.pc = "running"
    /\ peer.i = 1
    /\ Len(peer.edits) = 2
    /\ peer.working # peer.current_code

\* ------------------------------------------------------------------------
\* C18
\* ------------------------------------------------------------------------

\* C18: GeneratorAgent.refine never returns a partially edited script.  It
\* returns either a script with edit_based = True, whose code is the original
\* script with every parsed edit applied in order and whose edits_applied is
\* the number of edits, or a regenerated script with edit_based = False; and
\* it is the latter when the template is missing, the response does not
\* parse, an edit is not found, or an edit is ambiguous (apply_edits raises).
C18_RefineAllOrRegenerated ==
    refine.pc = "returned" =>
        \/ /\ refine.script.edit_based
           /\ truthy(refine.refine_prompt_template)
           /\ refine.edits # NotParsed
           /\ current_code = refine.original_script
           /\ edits = refine.edits.edits
           /\ edits = << >> \/ AllLocated
           /\ refine.script.code = FoldTo(Len(edits))
           /\ refine.script.edits_applied = Len(edits)
        \/ /\ ~refine.script.edit_based
           /\ refine.script.edits_applied = NoEditsApplied
           /\ refine.script.code \in GeneratedCodes

\* refine has returned a regenerated script after the second edit of the
\* response was ambiguous in the buffer the first edit had produced
C18_Witness ==
    /\ refine.pc = "returned"
    /\ ~refine.script.edit_based
    /\ pc = "raised"
    /\ i = 1
    /\ working # current_code

\* ------------------------------------------------------------------------
\* C19
\* ------------------------------------------------------------------------

\* C19: when the blank-line-flexible matcher finds the collapsed old_code
\* (of one character or more) exactly once, at collapsed offsets
\* [p, p + n), the start returned is the original offset of the collapsed
\* character at index p (the table entry indexed by p) and the end returned
\* is one past the original offset of the collapsed character at index
\* p + n - 1 (one past the final kept character when p + n is at or past the
\* end of the table); so the blank lines before the first matched line and
\* after the last one lie outside the span.
C19_BlankRemapExact ==
    \A k \in 1..Len(trace) :
        \A p \in LevelOcc(4, trace[k].code, trace[k].old_code) :
            (SpanFrom(4, k) /\ strip_blank_lines(trace[k].old_code) # << >>) =>
                /\ trace[k].match.start
                       = strip_blank_lines_with_spans(trace[k].code).spans[p + 1][1]
                /\ trace[k].match.end
                       = strip_blank_lines_with_spans(trace[k].code).spans[
                             p + Len(strip_blank_lines(trace[k].old_code))][1] + 1

\* ------------------------------------------------------------------------
\* C20
\* ------------------------------------------------------------------------

\* the offset of line l (1-based) in the text made of lines joined by newlines
RECURSIVE LineOffset(_, _)
LineOffset(lines, l) ==
    IF l = 1 THEN 0 ELSE LineOffset(lines, l - 1) + Len(lines[l - 1]) + 1

\* v is the start offset, in code, of the line whose trimmed text contains
\* offset q of the trimmed view, plus the column of q in that trimmed line
IsOrigOf(code, q, v) ==
    \E l \in 1..Len(split(code)) :
        /\ LineOffset(rstrip_lines(split(code)), l) <= q
        /\ q <= LineOffset(rstrip_lines(split(code)), l) + Len(rstrip(split(code)[l]))
        /\ v = LineOffset(split(code), l) + (q - LineOffset(rstrip_lines(split(code)), l))

\* C20: when the line-trimmed matcher finds the trimmed old_code exactly
\* once, at [p, p + n) of the trimmed view, start and end are each the
\* original start offset of the line containing the trimmed offset plus the
\* column of the offset in the trimmed line, and buffer[start:end] with
\* trailing whitespace stripped from each line equals old_code with trailing
\* whitespace stripped from each line.
C20_TrimmedRemapExact ==
    \A k \in 1..Len(trace) :
        \A p \in LevelOcc(2, trace[k].code, trace[k].old_code) :
            SpanFrom(2, k) =>
                /\ IsOrigOf(trace[k].code, p, trace[k].match.start)
                /\ IsOrigOf(trace[k].code, p + Len(TrimmedView(trace[k].old_code)),
                            trace[k].match.end)
                /\ TrimmedView(slice(trace[k].code, trace[k].match.start,
                                     trace[k].match.end))
                       = TrimmedView(trace[k].old_code)

\* a line-trimmed match on the second line of a buffer whose first line has
\* trailing whitespace: the offsets of the two views differ
C20_Witness ==
    \E k \in 1..Len(trace) :
        /\ SpanFrom(2, k)
        /\ trace[k].match.start < trace[k].match.end
        /\ \A p \in LevelOcc(2, trace[k].code, trace[k].old_code) :
              /\ p >= 1
              /\ TrimmedView(trace[k].code)[p] = NL
              /\ p < trace[k].match.start

\* ------------------------------------------------------------------------
\* C21
\* ------------------------------------------------------------------------

\* the number of leading whitespace characters of line
LeadingWhitespace(line) ==
    CHOOSE n \in 0..Len(line) :
        /\ \A j \in 1..n : line[j] \in Whitespace
        /\ n = Len(line) \/ line[n + 1] \notin Whitespace

WhitespaceOnly(line) == \A j \in 1..Len(line) : line[j] \in Whitespace

\* C21: _reindent(text, from_indent, to_indent) keeps the number of lines;
\* a whitespace-only line becomes the empty line; every other line becomes
\* max(0, current_indent + (to_indent - from_indent)) spaces followed by its
\* content after the leading whitespace, unchanged; no indentation is
\* negative.
C21_ReindentShiftsUniformly ==
    (helper.pc = "returned" /\ helper.fn = "_reindent") =>
        LET lines == split(helper.text)
            out   == split(helper.value)
            delta == helper.to_indent - helper.from_indent
        IN  /\ Len(out) = Len(lines)
            /\ \A k \in 1..Len(lines) :
                   IF WhitespaceOnly(lines[k]) THEN out[k] = << >>
                   ELSE LET cur == LeadingWhitespace(lines[k])
                            new == IF cur + delta > 0 THEN cur + delta ELSE 0
                        IN  /\ new >= 0
                            /\ Len(out[k]) = new + Len(lines[k]) - cur
                            /\ \A j \in 1..new : out[k][j] = SP
                            /\ \A j \in 1..(Len(lines[k]) - cur) :
                                   out[k][new + j] = lines[k][cur + j]

\* _reindent returned for a shift to the left over a text with a
\* whitespace-only line, a line whose indentation is clamped at 0 and a line
\* that keeps some indentation
C21_Witness ==
    /\ helper.pc = "returned"
    /\ helper.fn = "_reindent"
    /\ helper.to_indent < helper.from_indent
    /\ LET lines == split(helper.text)
           delta == helper.to_indent - helper.from_indent
       IN  /\ \E k \in 1..Len(lines) : lines[k] # << >> /\ WhitespaceOnly(lines[k])
           /\ \E k \in 1..Len(lines) :
                  ~WhitespaceOnly(lines[k]) /\ LeadingWhitespace(lines[k]) + delta < 0
           /\ \E k \in 1..Len(lines) :
                  ~WhitespaceOnly(lines[k]) /\ LeadingWhitespace(lines[k]) + delta > 0

\* ------------------------------------------------------------------------
\* C22
\* ------------------------------------------------------------------------

\* C22: every span a matcher returned to locate_edit, for the buffer and the
\* non-empty old_code of the call, has 0 <= start <= end <= len(buffer).
C22_SpanWithinBuffer ==
    \A k \in 1..Len(trace) :
        \A j \in 1..Len(trace[k].calls) :
            trace[k].calls[j].kind = "span" =>
                /\ trace[k].old_code # << >>
                /\ 0 <= trace[k].calls[j].start
                /\ trace[k].calls[j].start <= trace[k].calls[j].end
                /\ trace[k].calls[j].end <= Len(trace[k].code)

\* a batch of two edits was applied, the first located by the last matcher
\* with a span that starts inside the buffer and reaches its very end, the
\* second located by the second matcher
C22_Witness ==
    /\ Returned
    /\ result.success
    /\ Len(trace) = 2
    /\ Len(trace[1].calls) = NumMatchers
    /\ trace[1].match.start > 0
    /\ trace[1].match.end = Len(trace[1].code)
    /\ Len(trace[2].calls) = 2
    /\ trace[2].match.start < trace[2].match.end

\* ------------------------------------------------------------------------
\* C23
\* ------------------------------------------------------------------------

\* C23: a span returned by locate_edit for a non-empty old_code is never
\* empty (start < end), so an applied edit replaces at least one character
\* of the buffer.
C23_SpanNeverEmpty ==
    \A k \in 1..Len(trace) :
        (trace[k].old_code # << >> /\ trace[k].match.kind = "span") =>
            trace[k].match.start < trace[k].match.end

\* ------------------------------------------------------------------------
\* C24
\* ------------------------------------------------------------------------

\* C24: a script GeneratorAgent.refine returns with edit_based = True was
\* produced by applying at least one edit (edits_applied >= 1).
C24_EditBasedAppliedAnEdit ==
    (refine.pc = "returned" /\ refine.script.edit_based) =>
        refine.script.edits_applied >= 1

\* ------------------------------------------------------------------------
\* C25
\* ------------------------------------------------------------------------

\* run has ended: it returned state or an exception escaped
RunEnded == pipeline.pc \in {"returned", "escaped"}

\* the records are numbered 1, 2, ... and current_iteration counts them,
\* never beyond max_retries
IterationsBounded ==
    pipeline.state # NoValue =>
        /\ Len(pipeline.state.iterations) = pipeline.state.current_iteration
        /\ pipeline.state.current_iteration <= pipeline.max_retries
        /\ \A k \in 1..Len(pipeline.state.iterations) :
               pipeline.state.iterations[k].iteration = k

\* the step that ends an iteration, raised or not, appends its one record
\* and adds one to current_iteration; no other step adds or removes a record
\* or changes current_iteration
OneRecordPerIteration ==
    (pipeline.state # NoValue /\ pipeline'.state # NoValue) =>
        IF pipeline.pc = "record"
        THEN /\ pipeline'.state.iterations =
                    Append(pipeline.state.iterations, pipeline.record)
             /\ pipeline'.state.current_iteration =
                    pipeline.state.current_iteration + 1
        ELSE /\ Len(pipeline'.state.iterations) = Len(pipeline.state.iterations)
             /\ pipeline'.state.current_iteration = pipeline.state.current_iteration

\* C25: the ReAct loop is bounded and terminates.  Every iteration appends
\* exactly one record, also when it raised, and increases current_iteration
\* by one; current_iteration never exceeds max_retries, so at most
\* max_retries iterations run; and the loop, with it the run, always ends.
C25_LoopBoundedAndEnds ==
    /\ []IterationsBounded
    /\ [][OneRecordPerIteration]_vars
    /\ <>RunEnded

\* the loop has run max_retries iterations, the largest number there is, all
\* of which raised, one in the generator and one at the call of the critic,
\* and has returned because none remains
C25_Witness ==
    /\ pipeline.pc = "returned"
    /\ pipeline.state.status = "max_retries"
    /\ pipeline.max_retries = MaxRetries
    /\ pipeline.state.current_iteration = MaxRetries
    /\ \A k \in 1..MaxRetries : pipeline.state.iterations[k].error # NoValue
    /\ \E k \in 1..MaxRetries : pipeline.state.iterations[k].script = NoValue
    /\ \E k \in 1..MaxRetries : pipeline.state.iterations[k].render_output # NoValue

\* ------------------------------------------------------------------------
\* C26
\* ------------------------------------------------------------------------

\* record k of the run has a critique whose verdict is PASS
Passed(k) ==
    /\ pipeline.state.iterations[k].critique # NoValue
    /\ pipeline.state.iterations[k].critique.verdict = "pass"

\* _run_react_loop is at its loop test or in the body of an iteration, before
\* the record is added
InLoop == pipeline.pc \in {"loop", "generate", "execute", "critique", "record"}

\* the record has been added and the checks of lines 311-323 are to come
ChecksPending == pipeline.pc = "callback"

\* C26: when _run_react_loop returns, the status is SUCCESS, FAILED or
\* MAX_RETRIES, and it is SUCCESS exactly when the last recorded iteration
\* has a critique with verdict PASS; no iteration runs after an iteration
\* whose critique is PASS.
C26_SuccessIffLastPassed ==
    /\ pipeline.pc = "loop_returned" =>
           /\ pipeline.state.status \in {"success", "failed", "max_retries"}
           /\ pipeline.state.status = "success" <=>
                  /\ pipeline.state.iterations # << >>
                  /\ Passed(Len(pipeline.state.iterations))
    /\ pipeline.state # NoValue =>
           \A k \in 1..Len(pipeline.state.iterations) :
               Passed(k) => (k = Len(pipeline.state.iterations) /\ ~InLoop)

\* the loop has returned SUCCESS, with iterations left, for a second record
\* that holds a critique PASS (put there by the callback, the call of the
\* critic having raised) after a first one that holds a critique FAIL
C26_Witness ==
    /\ pipeline.pc = "loop_returned"
    /\ pipeline.state.status = "success"
    /\ Len(pipeline.state.iterations) = 2
    /\ pipeline.max_retries > 2
    /\ pipeline.state.iterations[1].critique # NoValue
    /\ ~Passed(1)
    /\ pipeline.state.iterations[2].render_output # NoValue
    /\ Passed(2)

\* ------------------------------------------------------------------------
\* C27
\* ------------------------------------------------------------------------

\* the last three records of the run all have an error, with one same text
SameErrorThrice ==
    /\ pipeline.state # NoValue
    /\ Len(pipeline.state.iterations) >= 3
    /\ \A k \in (Len(pipeline.state.iterations) - 2)..Len(pipeline.state.iterations) :
           /\ pipeline.state.iterations[k].error # NoValue
           /\ pipeline.state.iterations[k].error =
                  pipeline.state.iterations[Len(pipeline.state.iterations)].error

\* the loop has stopped and the status is FAILED, unless the last record
\* passed (the PASS check comes first)
StoppedFailed ==
    /\ ~InLoop
    /\ \/ pipeline.state.status = "failed"
       \/ Passed(Len(pipeline.state.iterations))

\* C27: once the last three recorded iterations carry the same error text,
\* whatever it is, and the checks that follow the iteration are made, the
\* loop has stopped with status FAILED and runs no further iteration, also
\* when iterations remain.  Three iterations that raised the same exception
\* without arguments, whose text is "", violate it: should_stop_early keeps
\* an error only if it is truthy (line 118).
C27_StopsOnSameErrorText ==
    (SameErrorThrice /\ ~ChecksPending) => StoppedFailed

\* ------------------------------------------------------------------------
\* C28
\* ------------------------------------------------------------------------

\* C28: whenever the ReAct loop is about to call generator.refine, the record
\* of the previous iteration holds a generated script.
C28_RefineGetsAScript ==
    (pipeline.pc = "generate" /\ feedback_truthy) => original_script # NoValue

\* ------------------------------------------------------------------------
\* C29
\* ------------------------------------------------------------------------

\* C29: the threshold overrides the verdict of the model in one direction
\* only.  A parsed response whose verdict is "fail" and whose clamped score
\* is at least pass_threshold yields PASS, and a parsed response whose
\* verdict is "pass" is never turned into FAIL by its score.
C29_ThresholdOverridesFailOnly ==
    (helper.pc = "returned" /\ helper.fn = "_parse_response"
     /\ helper.data # NoJsonFound
     /\ valid_list(as_list(helper.data.issues))
     /\ valid_list(as_list(helper.data.suggestions))) =>
        /\ (verdict_str(helper.data) = "fail"
            /\ helper.value.score >= helper.pass_threshold) =>
               helper.value.verdict = "pass"
        /\ verdict_str(helper.data) = "pass" => helper.value.verdict = "pass"

\* ------------------------------------------------------------------------
\* C30
\* ------------------------------------------------------------------------

\* C30: once its phases have begun, Orchestrator.run always returns a
\* PipelineState whose status is SUCCESS, FAILED or MAX_RETRIES; an exception
\* raised in the clarification, the reference validation, the planning or
\* the generation loop becomes status FAILED and never escapes run.
C30_RunReturnsAFinalState ==
    (RunEnded /\ ~(pipeline.raised = [text |-> MsgMkdir])) =>
        /\ pipeline.pc = "returned"
        /\ pipeline.raised = NoValue
        /\ pipeline.state # NoValue
        /\ pipeline.state.status \in {"success", "failed", "max_retries"}
        /\ pipeline.caught # NoValue => pipeline.state.status = "failed"

====
